---- MODULE Spec2Model ----
(***************************************************************************)
(* A model of the round / voting game loop of SnackAttack:                 *)
(*   - VotingSystem (src/src/screens/gameplay.py)                          *)
(*   - Player leash, score and effects (src/src/entities/player.py)        *)
(*   - GameplayScreen round / match state machine (gameplay.py)            *)
(*   - TreatAttackGameplay (src/src/screens/treat_attack_gameplay.py)      *)
(*                                                                         *)
(* Time is counted in half seconds: a timer of 10.0 s is 20, a frame delta *)
(* dt is a positive number of half seconds.  Python's None, True and False *)
(* are the strings "None", "True" and "False" where a call returns them.   *)
(***************************************************************************)
EXTENDS Integers, Sequences, FiniteSets, TLC

VARIABLES
    voting_system,   \* the VotingSystem object (GameplayScreen.voting_system)
    vs_ret,          \* value returned by the last VotingSystem call
    vs_op,           \* the last VotingSystem call: <<name, arguments>>
    vote_log,        \* accepted add_vote calls of the current voting window
    phase_elapsed,   \* time passed to update since the voting phase began
    vs_before,       \* voting_system and phase_elapsed before the last call
    players,         \* the two Player objects (player1, player2)
    player_op,       \* the last Player call: <<name, player, argument>>
    leash_elapsed,   \* time the players were updated for since the last vote
                     \* effect, -1 before the first one
    treat_attack,    \* the TreatAttackGameplay screen with its dog and treats
    game,            \* the GameplayScreen: rounds, timers, arenas, current screen
    game_prev,       \* what the last GameplayScreen call started from and did
    game_tick,       \* what the last GameplayScreen.update call did
    game_frames,     \* parity of the number of update calls made on the
                     \* unpaused screen
    chat             \* the Twitch chat thread, the pygame event queue and the
                     \* main loop that drains it into a VotingSystem

voting_vars == <<voting_system, vs_ret, vs_op, vote_log, phase_elapsed, vs_before, chat>>
player_vars == <<players, player_op, leash_elapsed>>

game_vars == <<game, game_prev, game_tick, game_frames>>

vars == <<voting_system, vs_ret, vs_op, vote_log, phase_elapsed, vs_before,
          players, player_op, leash_elapsed, treat_attack, game, game_prev,
          game_tick, game_frames, chat>>

(***************************************************************************)
(* Bounds of the model                                                     *)
(***************************************************************************)
MaxDt == 3          \* frame deltas are 1..MaxDt half seconds
NumVoters == 2      \* voter identities 1..NumVoters
MaxLog == 2         \* accepted votes recorded per voting window
MaxScore == 150     \* no further collection once a score exceeds this
MaxEffects == 2     \* active effects held by one player
MaxMeterVotes == 2  \* Treat Attack vote commands counted per window
MaxPosts == 3       \* vote events the chat thread posts
\* Treat Attack settings of the checked configuration, in half seconds (the
\* fallback values of the code are 60 s, 10 s, 5 s and 5.0 s)
TARoundDuration == 10
TAVoteWindow == 4
TAVoteCooldown == 6
TAEffectDuration == 2
GameRoundDuration == 9  \* round_duration_seconds of the levels, in half seconds

DTs == 1..MaxDt
Voters == 1..NumVoters
VoteTypes == {"extend", "yank"}
VoteInputs == {"extend", "yank", "boost"}   \* "boost" is not a vote option

(***************************************************************************)
(* VotingSystem                                                            *)
(***************************************************************************)
voting_duration == 20      \* 10.0 s
cooldown_duration == 10    \* 5.0 s

\* list.remove(x): drops the first occurrence of x
RECURSIVE list_remove(_, _)
list_remove(s, x) ==
    IF s = <<>> THEN <<>>
    ELSE IF Head(s) = x THEN Tail(s)
    ELSE <<Head(s)>> \o list_remove(Tail(s), x)

list_contains(s, x) == \E i \in 1..Len(s) : s[i] = x

\* list.remove(x) raises ValueError when x is not in the list
list_remove_raises(s, x) == ~list_contains(s, x)

VotingSystem_init ==
    [votes |-> [extend |-> <<>>, yank |-> <<>>],
     voting_active |-> TRUE,
     voting_timer |-> voting_duration,
     cooldown_timer |-> 0,
     last_winner |-> "None"]

\* add_vote that keeps the voter's earlier vote
VotingSystem_add_vote_keeps_old(v, vote_type, voter_id) ==
    IF ~v.voting_active THEN [vs |-> v, ret |-> "False"]
    ELSE IF vote_type \notin DOMAIN v.votes THEN [vs |-> v, ret |-> "False"]
    ELSE [vs |-> [v EXCEPT !.votes[vote_type] = Append(@, voter_id)],
          ret |-> "True"]

\* add_vote that does not look at voting_active
VotingSystem_add_vote_in_cooldown(v, vote_type, voter_id) ==
    IF vote_type \notin DOMAIN v.votes THEN [vs |-> v, ret |-> "False"]
    ELSE
      LET removed == [t \in DOMAIN v.votes |->
                        IF list_contains(v.votes[t], voter_id)
                        THEN list_remove(v.votes[t], voter_id)
                        ELSE v.votes[t]]
          added == [removed EXCEPT ![vote_type] = Append(@, voter_id)]
      IN [vs |-> [v EXCEPT !.votes = added], ret |-> "True"]

\* add_vote: the pair of the object after the call and the value returned
VotingSystem_add_vote(v, vote_type, voter_id) ==
    IF ~v.voting_active THEN [vs |-> v, ret |-> "False"]
    ELSE IF vote_type \notin DOMAIN v.votes THEN [vs |-> v, ret |-> "False"]
    ELSE
      LET guarded == [t \in DOMAIN v.votes |-> list_contains(v.votes[t], voter_id)]
          removed == [t \in DOMAIN v.votes |->
                        IF guarded[t]
                        THEN list_remove(v.votes[t], voter_id)
                        ELSE v.votes[t]]
          added == [removed EXCEPT ![vote_type] = Append(@, voter_id)]
      IN IF \E t \in DOMAIN v.votes :
               guarded[t] /\ list_remove_raises(v.votes[t], voter_id)
         THEN [vs |-> v, ret |-> "ValueError"]
         ELSE [vs |-> [v EXCEPT !.votes = added], ret |-> "True"]

VotingSystem_get_vote_counts(v) == [t \in DOMAIN v.votes |-> Len(v.votes[t])]

\* get_winner that lets "extend" win a tie
VotingSystem_get_winner_tie_extend(v) ==
    IF Len(v.votes["extend"]) >= Len(v.votes["yank"]) THEN "extend" ELSE "yank"

\* get_winner comparing with >= : a tie goes to "yank"
VotingSystem_get_winner_tie_yank(v) ==
    LET counts == VotingSystem_get_vote_counts(v)
    IN IF counts.extend > counts.yank THEN "extend" ELSE "yank"

VotingSystem_get_winner(v) ==
    LET counts == VotingSystem_get_vote_counts(v)
        extend_votes == counts["extend"]
        yank_votes == counts["yank"]
    IN IF extend_votes > yank_votes THEN "extend"
       ELSE IF yank_votes > extend_votes THEN "yank"
       ELSE "None"

\* reset_votes that forgets to clear last_winner
VotingSystem_reset_votes_keeps_winner(v) ==
    [v EXCEPT !.votes = [extend |-> <<>>, yank |-> <<>>]]

VotingSystem_reset_votes(v) ==
    [v EXCEPT !.votes = [extend |-> <<>>, yank |-> <<>>],
              !.last_winner = "None"]

\* update reopening the vote only once the cooldown timer is below zero
VotingSystem_update_reopens_late(v, dt) ==
    IF v.cooldown_timer > 0 THEN
      LET c == v.cooldown_timer - dt
          v1 == [v EXCEPT !.cooldown_timer = c]
      IN IF c < 0
         THEN [vs |-> [VotingSystem_reset_votes(v1) EXCEPT
                          !.voting_active = TRUE,
                          !.voting_timer = voting_duration],
               ret |-> "None"]
         ELSE [vs |-> v1, ret |-> "None"]
    ELSE IF v.voting_active THEN
      LET t == v.voting_timer - dt
          v1 == [v EXCEPT !.voting_timer = t]
      IN IF t <= 0
         THEN LET winner == VotingSystem_get_winner(v1)
              IN [vs |-> [v1 EXCEPT !.last_winner = winner,
                                    !.voting_active = FALSE,
                                    !.cooldown_timer = cooldown_duration],
                  ret |-> winner]
         ELSE [vs |-> v1, ret |-> "None"]
    ELSE [vs |-> v, ret |-> "None"]

VotingSystem_update(v, dt) ==
    IF v.cooldown_timer > 0 THEN
      LET c == v.cooldown_timer - dt
          v1 == [v EXCEPT !.cooldown_timer = c]
      IN IF c <= 0
         THEN [vs |-> [VotingSystem_reset_votes(v1) EXCEPT
                          !.voting_active = TRUE,
                          !.voting_timer = voting_duration],
               ret |-> "None"]
         ELSE [vs |-> v1, ret |-> "None"]
    ELSE IF v.voting_active THEN
      LET t == v.voting_timer - dt
          v1 == [v EXCEPT !.voting_timer = t]
      IN IF t <= 0
         THEN LET winner == VotingSystem_get_winner(v1)
              IN [vs |-> [v1 EXCEPT !.last_winner = winner,
                                    !.voting_active = FALSE,
                                    !.cooldown_timer = cooldown_duration],
                  ret |-> winner]
         ELSE [vs |-> v1, ret |-> "None"]
    ELSE [vs |-> v, ret |-> "None"]

(***************************************************************************)
(* Arenas and Player                                                       *)
(***************************************************************************)
GAME_AREA_WIDTH == 1000
SCREEN_HEIGHT == 1000
GAMEPLAY_SIZE == 144           \* player sprite width and height
arena_gap == 16
arena_width == (GAME_AREA_WIDTH - arena_gap) \div 2
arena_height == SCREEN_HEIGHT - 140
arena_y == 65
ground_offset == 230
base_move_speed == 350         \* pixels per second
leash_effect_duration == 16    \* 8.0 s

PlayerNums == {1, 2}
Other(p) == 3 - p

\* pygame.Rect of the arena of player p
arena_bounds(p) ==
    LET left == IF p = 1 THEN 0 ELSE arena_width + arena_gap
    IN [left |-> left, right |-> left + arena_width,
        top |-> arena_y, bottom |-> arena_y + arena_height,
        centerx |-> left + arena_width \div 2]

\* the cross-arena maxima GameplayScreen._apply_vote_effect passes
p1_cross_max == arena_bounds(2).left + 150
p2_cross_max == arena_bounds(1).right + 150

\* int(x) of a quotient a / b, b > 0: truncation toward zero
IntDiv(a, b) == IF a >= 0 THEN a \div b ELSE -((-a) \div b)

Max(a, b) == IF a >= b THEN a ELSE b
Min(a, b) == IF a <= b THEN a ELSE b

\* Player.__init__ (AIPlayer.__init__ for is_ai), then the y set by _setup_arenas
Player_init(p, is_ai, character_id) ==
    LET b == arena_bounds(p)
    IN [player_num |-> p,
        is_ai |-> is_ai,
        character_id |-> character_id,
        x |-> b.centerx - GAMEPLAY_SIZE \div 2,
        y |-> b.bottom - ground_offset,
        velocity_x |-> 0,
        score |-> 0,
        active_effects |-> <<>>,
        is_invincible |-> FALSE,
        controls_flipped |-> FALSE,
        leash_base_min_x |-> b.left,
        leash_base_max_x |-> b.right - GAMEPLAY_SIZE,
        leash_min_x |-> b.left,
        leash_max_x |-> b.right - GAMEPLAY_SIZE,
        leash_effect_timer |-> 0,
        leash_extend_amount |-> IntDiv(arena_width * 15, 100),
        leash_yank_amount |-> IntDiv(arena_width * 35, 100)]

\* product of the magnitudes (in percent) of the effects of the given types,
\* as a fraction <<numerator, denominator>>
RECURSIVE effect_product(_, _)
effect_product(effects, types) ==
    IF effects = <<>> THEN <<1, 1>>
    ELSE LET rest == effect_product(Tail(effects), types)
         IN IF Head(effects).type \in types
            THEN <<Head(effects).magnitude * rest[1], 100 * rest[2]>>
            ELSE rest

Player_get_speed_multiplier(pl) ==
    effect_product(pl.active_effects, {"speed_boost", "slow", "boost"})

Player_get_score_multiplier(pl) ==
    effect_product(pl.active_effects, {"boost"})

Player_apply_effect(pl, effect_type, magnitude, duration) ==
    LET effect == [type |-> effect_type, magnitude |-> magnitude,
                   time_remaining |-> duration]
        pl1 == [pl EXCEPT !.active_effects = Append(@, effect)]
    IN IF effect_type = "invincibility" THEN [pl1 EXCEPT !.is_invincible = TRUE]
       ELSE IF effect_type = "chaos" THEN [pl1 EXCEPT !.controls_flipped = TRUE]
       ELSE pl1

\* update_effects: the loop over active_effects, one effect per step
RECURSIVE update_effects_loop(_, _, _)
update_effects_loop(pl, effects, dt) ==
    IF effects = <<>> THEN pl
    ELSE
      LET effect == [Head(effects) EXCEPT !.time_remaining = @ - dt]
          pl1 == IF effect.time_remaining <= 0
                 THEN IF effect.type = "invincibility"
                      THEN [pl EXCEPT !.is_invincible = FALSE]
                      ELSE IF effect.type = "chaos"
                      THEN [pl EXCEPT !.controls_flipped = FALSE]
                      ELSE pl
                 ELSE [pl EXCEPT !.active_effects = Append(@, effect)]
      IN update_effects_loop(pl1, Tail(effects), dt)

Player_update_effects(pl, dt) ==
    update_effects_loop([pl EXCEPT !.active_effects = <<>>], pl.active_effects, dt)

\* handle_input with horizontal_only: keys is [left |-> BOOLEAN, right |-> BOOLEAN]
Player_handle_input(pl, keys) ==
    IF pl.is_ai THEN pl
    ELSE
      LET dx0 == IF keys.right THEN 1 ELSE IF keys.left THEN -1 ELSE 0
          dx == IF pl.controls_flipped THEN -dx0 ELSE dx0
          m == Player_get_speed_multiplier(pl)
          speed == (base_move_speed * m[1]) \div m[2]
      IN [pl EXCEPT !.velocity_x = dx * speed]

Player_reset_leash(pl) ==
    [pl EXCEPT !.leash_min_x = pl.leash_base_min_x,
               !.leash_max_x = pl.leash_base_max_x,
               !.leash_effect_timer = 0]

\* a displacement velocity * dt, dt in half seconds
Displacement(velocity, dt) == IntDiv(velocity * dt, 2)

\* Player.update
Player_update(pl, dt) ==
    LET pl1 == IF pl.leash_effect_timer > 0
               THEN LET t == pl.leash_effect_timer - dt
                    IN IF t <= 0
                       THEN Player_reset_leash([pl EXCEPT !.leash_effect_timer = t])
                       ELSE [pl EXCEPT !.leash_effect_timer = t]
               ELSE pl
        new_x == pl1.x + Displacement(pl1.velocity_x, dt)
        clamped == Max(pl1.leash_min_x, Min(new_x, pl1.leash_max_x))
    IN Player_update_effects([pl1 EXCEPT !.x = clamped], dt)

\* extend_leash; cross_arena_max_x is <<x>>, or <<>> for None
Player_extend_leash(pl, cross_arena_max_x) ==
    [pl EXCEPT !.leash_max_x = IF cross_arena_max_x # <<>>
                               THEN cross_arena_max_x[1]
                               ELSE pl.leash_base_max_x + pl.leash_extend_amount,
               !.leash_effect_timer = leash_effect_duration]

\* yank_leash without the minimum range
Player_yank_leash_no_floor(pl) ==
    [pl EXCEPT !.leash_max_x = pl.leash_base_max_x - pl.leash_yank_amount,
               !.leash_effect_timer = leash_effect_duration]

Player_yank_leash(pl) ==
    LET min_range == GAMEPLAY_SIZE * 2
    IN [pl EXCEPT !.leash_max_x = Max(pl.leash_base_max_x - pl.leash_yank_amount,
                                      pl.leash_min_x + min_range),
                  !.leash_effect_timer = leash_effect_duration]

Player_get_leash_state(pl) ==
    IF pl.leash_effect_timer <= 0 THEN "normal"
    ELSE IF pl.leash_max_x > pl.leash_base_max_x THEN "extended"
    ELSE IF pl.leash_max_x < pl.leash_base_max_x THEN "yanked"
    ELSE "normal"

\* add_score without the floor at 0
Player_add_score_no_floor(pl, points) ==
    [pl EXCEPT !.score = pl.score + points]

Player_add_score(pl, points) ==
    LET sum == pl.score + points
    IN [pl EXCEPT !.score = IF sum < 0 THEN 0 ELSE sum]

Player_reset_position(pl) ==
    LET b == arena_bounds(pl.player_num)
    IN [pl EXCEPT !.x = b.centerx - GAMEPLAY_SIZE \div 2,
                  !.y = (b.top + arena_height \div 2) - GAMEPLAY_SIZE \div 2,
                  !.velocity_x = 0]

\* reset leaving the score of the last round
Player_reset_keeps_score(pl) ==
    Player_reset_leash(
        [Player_reset_position(pl) EXCEPT !.active_effects = <<>>,
                                          !.is_invincible = FALSE,
                                          !.controls_flipped = FALSE])

Player_reset(pl) ==
    Player_reset_leash(
        [Player_reset_position(pl) EXCEPT !.score = 0,
                                          !.active_effects = <<>>,
                                          !.is_invincible = FALSE,
                                          !.controls_flipped = FALSE])

(***************************************************************************)
(* Snacks and their collection (split-screen)                              *)
(***************************************************************************)
\* the snack pool: point values and effects (magnitude in percent,
\* duration in half seconds); <<>> is no effect
SnackConfigs ==
    {[id |-> "pizza", point_value |-> 100, effect |-> <<>>],
     [id |-> "broccoli", point_value |-> -200, effect |-> <<>>],
     [id |-> "red_bull", point_value |-> 50,
      effect |-> <<[type |-> "boost", magnitude |-> 200, duration_seconds |-> 4]>>],
     [id |-> "chilli", point_value |-> -25,
      effect |-> <<[type |-> "chaos", magnitude |-> 100, duration_seconds |-> 3]>>]}

\* FallingSnack.collect
FallingSnack_collect(snack) == [snack EXCEPT !.active = FALSE, !.collected = TRUE]

\* the points _collect_snack awards for a snack of the given value
collect_points(pl, point_value, stolen) ==
    LET points == IF stolen THEN IntDiv(point_value * 15, 10) ELSE point_value
        m == Player_get_score_multiplier(pl)
    IN IntDiv(points * m[1], m[2])

\* GameplayScreen._collect_snack, the player's side of it
GameplayScreen_collect_snack(pl, snack, stolen) ==
    LET points == collect_points(pl, snack.point_value, stolen)
        pl1 == Player_add_score(pl, points)
    IN IF snack.effect # <<>>
       THEN Player_apply_effect(pl1, snack.effect[1].type,
                                snack.effect[1].magnitude,
                                snack.effect[1].duration_seconds)
       ELSE pl1

(***************************************************************************)
(* Treat Attack: CatcherDog, FallingTreat, TreatSpawner, VotingMeter and   *)
(* TreatAttackGameplay, with the fallback settings of on_enter             *)
(***************************************************************************)
ta_game_height == 720
ta_round_duration == TARoundDuration
ta_base_fall_speed == 150
ta_spawn_interval == 3         \* 1.5 s
ta_vote_window_duration == TAVoteWindow
ta_vote_cooldown == TAVoteCooldown
dog_width == 64
dog_height == 64
dog_ground_y == 650
dog_move_speed == 300
default_min_x == 50
default_max_x == 550
extended_max_x == 670
yanked_max_x == 350
dog_effect_duration == TAEffectDuration
treat_size == 48

\* treat types of the fallback settings
TreatTypes ==
    {[id |-> "normal", point_value |-> 100, spawn_bias_right |-> FALSE],
     [id |-> "power", point_value |-> 500, spawn_bias_right |-> TRUE],
     [id |-> "bad", point_value |-> -200, spawn_bias_right |-> FALSE]}

\* a spawn position random.uniform can draw for every treat type
TreatColumns == {450}

\* positions _spawn_treat can draw for a treat type
SpawnColumns(config) ==
    IF config.spawn_bias_right
    THEN {c \in TreatColumns : c * 10 >= 720 * 6}
    ELSE TreatColumns

CatcherDog_init ==
    [x |-> (default_min_x + default_max_x) \div 2,
     y |-> dog_ground_y,
     velocity_x |-> 0,
     leash_state |-> "NORMAL",
     leash_effect_timer |-> 0]

CatcherDog_current_min_x(dog) == default_min_x

CatcherDog_current_max_x(dog) ==
    IF dog.leash_state = "EXTENDED" THEN extended_max_x
    ELSE IF dog.leash_state = "YANKED" THEN yanked_max_x
    ELSE default_max_x

CatcherDog_set_leash_state(dog, state) ==
    [dog EXCEPT !.leash_state = state,
                !.leash_effect_timer = IF state # "NORMAL"
                                       THEN dog_effect_duration ELSE @]

CatcherDog_extend_leash(dog) == CatcherDog_set_leash_state(dog, "EXTENDED")
CatcherDog_yank_leash(dog) == CatcherDog_set_leash_state(dog, "YANKED")

CatcherDog_reset_leash(dog) ==
    [dog EXCEPT !.leash_state = "NORMAL", !.leash_effect_timer = 0]

CatcherDog_move_left(dog) == [dog EXCEPT !.velocity_x = -dog_move_speed]
CatcherDog_move_right(dog) == [dog EXCEPT !.velocity_x = dog_move_speed]
CatcherDog_stop(dog) == [dog EXCEPT !.velocity_x = 0]

CatcherDog_update(dog, dt) ==
    LET d1 == IF dog.leash_effect_timer > 0
              THEN LET t == dog.leash_effect_timer - dt
                   IN IF t <= 0
                      THEN CatcherDog_reset_leash([dog EXCEPT !.leash_effect_timer = t])
                      ELSE [dog EXCEPT !.leash_effect_timer = t]
              ELSE dog
    IN IF d1.velocity_x # 0
       THEN LET new_x == d1.x + Displacement(d1.velocity_x, dt)
                min_x == CatcherDog_current_min_x(d1)
                max_x == CatcherDog_current_max_x(d1) - dog_width
            IN [d1 EXCEPT !.x = Max(min_x, Min(new_x, max_x))]
       ELSE d1

\* pygame.Rect.colliderect of two rectangles <<x, y, w, h>>
colliderect(a, b) ==
    /\ a[1] < b[1] + b[3]
    /\ b[1] < a[1] + a[3]
    /\ a[2] < b[2] + b[4]
    /\ b[2] < a[2] + a[4]

CatcherDog_check_collision(dog, treat_rect) ==
    colliderect(<<dog.x, dog.y, dog_width, dog_height>>, treat_rect)

FallingTreat_init(config, x) ==
    [treat_id |-> config.id, point_value |-> config.point_value,
     x |-> x, y |-> -50, active |-> TRUE, collected |-> FALSE]

FallingTreat_rect(treat) == <<treat.x, treat.y, treat_size, treat_size>>

\* FallingTreat.update: the treat after the call; the call returns .active
FallingTreat_update(treat, dt) ==
    IF ~treat.active THEN treat
    ELSE LET y == treat.y + Displacement(ta_base_fall_speed, dt)
         IN IF y > ta_game_height
            THEN [treat EXCEPT !.y = y, !.active = FALSE]
            ELSE [treat EXCEPT !.y = y]

FallingTreat_collect(treat) == [treat EXCEPT !.active = FALSE, !.collected = TRUE]

VotingMeter_add_vote(meter, vote_type) ==
    IF vote_type = "extend" THEN [meter EXCEPT !.extend_votes = @ + 1]
    ELSE IF vote_type = "yank" THEN [meter EXCEPT !.yank_votes = @ + 1]
    ELSE meter

VotingMeter_get_winner(meter) ==
    IF meter.extend_votes > meter.yank_votes THEN "extend"
    ELSE IF meter.yank_votes > meter.extend_votes THEN "yank"
    ELSE "None"

VotingMeter_reset_votes(meter) == [extend_votes |-> 0, yank_votes |-> 0]

\* TreatAttackGameplay.on_enter
TreatAttack_on_enter ==
    [score |-> 0,
     time_remaining |-> ta_round_duration,
     game_over |-> FALSE,
     paused |-> FALSE,
     treats |-> <<>>,
     dog |-> CatcherDog_init,
     spawn_timer |-> 0,
     voting_meter |-> [extend_votes |-> 0, yank_votes |-> 0],
     vote_timer |-> 0,
     cooldown_timer |-> 0,
     voting_active |-> TRUE,
     chat_active |-> FALSE]

TreatAttack_process_command(ta, command) ==
    IF command \in {"!extend", "!help"}
    THEN IF ta.voting_active
         THEN [ta EXCEPT !.voting_meter = VotingMeter_add_vote(@, "extend")]
         ELSE ta
    ELSE IF command \in {"!yank", "!hinder"}
    THEN IF ta.voting_active
         THEN [ta EXCEPT !.voting_meter = VotingMeter_add_vote(@, "yank")]
         ELSE ta
    ELSE ta

TreatAttack_update_voting(ta, dt) ==
    IF ta.voting_active
    THEN LET t == ta.vote_timer + dt
         IN IF t >= ta_vote_window_duration
            THEN LET winner == VotingMeter_get_winner(ta.voting_meter)
                     dog == IF winner = "extend" THEN CatcherDog_extend_leash(ta.dog)
                            ELSE IF winner = "yank" THEN CatcherDog_yank_leash(ta.dog)
                            ELSE ta.dog
                 IN [ta EXCEPT !.dog = dog,
                               !.voting_active = FALSE,
                               !.vote_timer = 0,
                               !.cooldown_timer = 0,
                               !.voting_meter = VotingMeter_reset_votes(@)]
            ELSE [ta EXCEPT !.vote_timer = t]
    ELSE LET c == ta.cooldown_timer + dt
         IN IF c >= ta_vote_cooldown
            THEN [ta EXCEPT !.voting_active = TRUE, !.cooldown_timer = 0]
            ELSE [ta EXCEPT !.cooldown_timer = c]

\* the loop of update over self.treats: treats still to visit, the dog,
\* the score so far and the treats kept so far
RECURSIVE treats_loop(_, _, _, _, _)
treats_loop(treats, dog, dt, score, active_treats) ==
    IF treats = <<>> THEN [score |-> score, treats |-> active_treats]
    ELSE
      LET treat == FallingTreat_update(Head(treats), dt)
      IN IF treat.active
         THEN IF CatcherDog_check_collision(dog, FallingTreat_rect(treat))
              THEN treats_loop(Tail(treats), dog, dt,
                               score + FallingTreat_collect(treat).point_value,
                               active_treats)
              ELSE treats_loop(Tail(treats), dog, dt, score,
                               Append(active_treats, treat))
         ELSE treats_loop(Tail(treats), dog, dt, score, active_treats)

\* TreatAttackGameplay.update; keys is "left", "right" or "none" (the keys
\* held down), spawn is the treat _spawn_treat would draw
TreatAttack_update(ta, dt, keys, spawn) ==
    IF ta.game_over \/ ta.paused THEN ta
    ELSE
      LET r == ta.time_remaining - dt
      IN IF r <= 0
         THEN [ta EXCEPT !.time_remaining = 0, !.game_over = TRUE]
         ELSE
           LET ta1 == TreatAttack_update_voting([ta EXCEPT !.time_remaining = r], dt)
               dog1 == IF ~ta1.chat_active
                       THEN IF keys = "left" THEN CatcherDog_move_left(ta1.dog)
                            ELSE IF keys = "right" THEN CatcherDog_move_right(ta1.dog)
                            ELSE CatcherDog_stop(ta1.dog)
                       ELSE ta1.dog
               dog2 == CatcherDog_update(dog1, dt)
               timer == ta1.spawn_timer + dt
               spawned == timer >= ta_spawn_interval
               treats1 == IF spawned THEN Append(ta1.treats, spawn) ELSE ta1.treats
               loop == treats_loop(treats1, dog2, dt, ta1.score, <<>>)
           IN [ta1 EXCEPT !.dog = dog2,
                          !.spawn_timer = IF spawned THEN 0 ELSE timer,
                          !.score = loop.score,
                          !.treats = loop.treats]

(***************************************************************************)
(* GameplayScreen: arenas, countdown, walk-in, rounds and the match.  The  *)
(* screen is the record g with the fields of the object, its two players   *)
(* in g.players and its VotingSystem in g.voting_system.                   *)
(***************************************************************************)
FOOD_SIZE == 72
max_rounds == 3
walk_in_duration == 7          \* 3.5 s
max_snacks == 15
round_duration == GameRoundDuration

\* Arena.__init__
Arena_init(p) ==
    [snacks |-> <<>>, spawn_timer |-> 0, base_spawn_interval |-> 100,
     fall_speed |-> 180, ground_y |-> arena_bounds(p).bottom - 16]

\* FallingSnack.__init__
FallingSnack_init(config, x, p, fall_speed, ground_y) ==
    [snack_id |-> config.id, point_value |-> config.point_value,
     effect |-> config.effect, x |-> x, y |-> arena_bounds(p).top - FOOD_SIZE,
     fall_speed |-> fall_speed, ground_y |-> ground_y,
     active |-> TRUE, collected |-> FALSE]

\* FallingSnack.update: the snack after the call; the call returns .active
FallingSnack_update(snack, dt) ==
    IF ~snack.active THEN snack
    ELSE LET y == snack.y + Displacement(snack.fall_speed, dt)
         IN IF y > snack.ground_y
            THEN [snack EXCEPT !.y = y, !.active = FALSE]
            ELSE [snack EXCEPT !.y = y]

\* the longest spawn timer interval + random.uniform(-0.3, 0.3) can give,
\* rounded up to the half seconds the frames count in; base_spawn_interval
\* is in hundredths of a second
CeilDiv(a, b) == (a + b - 1) \div b

SpawnDelays(base_spawn_interval) == {CeilDiv(base_spawn_interval + 30, 50)}

\* random.randint(left + padding, right - padding - snack_size): one column
\* above the spot the player of the arena starts from
SnackColumns(p) == {arena_bounds(p).left + 200}

\* the snacks of the level's pool: the fallback pool ["pizza"]
SnackPool == {config \in SnackConfigs : config.id = "pizza"}

\* Arena.spawn_snack; draw is what the random calls return
Arena_spawn_snack(arena, p, draw) ==
    IF Len(arena.snacks) >= max_snacks THEN arena
    ELSE [arena EXCEPT !.snacks =
            Append(@, FallingSnack_init(draw.config, draw.x, p,
                                        arena.fall_speed, arena.ground_y))]

\* Arena.update
Arena_update(arena, p, dt, draw) ==
    LET timer == arena.spawn_timer - dt
        a1 == IF timer <= 0
              THEN [Arena_spawn_snack(arena, p, draw) EXCEPT !.spawn_timer = draw.delay]
              ELSE [arena EXCEPT !.spawn_timer = timer]
        moved == [i \in 1..Len(a1.snacks) |-> FallingSnack_update(a1.snacks[i], dt)]
    IN [a1 EXCEPT !.snacks = SelectSeq(moved, LAMBDA snack : snack.active)]

\* pygame.Rect.inflate(-d, -d) of a square <<x, y, size, size>>
inflate(rect, d) == <<rect[1] + d \div 2, rect[2] + d \div 2, rect[3] - d, rect[4] - d>>

Player_rect(pl) == <<pl.x, pl.y, GAMEPLAY_SIZE, GAMEPLAY_SIZE>>
FallingSnack_rect(snack) == <<snack.x, snack.y, FOOD_SIZE, FOOD_SIZE>>

\* the loop of _check_collisions without the skip of inactive snacks
RECURSIVE collisions_loop_collects_inactive(_, _, _, _, _)
collisions_loop_collects_inactive(g, p, a, stolen, i) ==
    IF i > Len(g.arenas[a].snacks) THEN g
    ELSE
      LET snack == g.arenas[a].snacks[i]
          p_hitbox == inflate(Player_rect(g.players[p]), 80)
          snack_hitbox == inflate(FallingSnack_rect(snack), 20)
      IN IF colliderect(p_hitbox, snack_hitbox)
         THEN collisions_loop_collects_inactive(
                [g EXCEPT !.players[p] = GameplayScreen_collect_snack(@, snack, stolen),
                          !.arenas[a].snacks[i] = FallingSnack_collect(@)],
                p, a, stolen, i + 1)
         ELSE collisions_loop_collects_inactive(g, p, a, stolen, i + 1)

\* one loop of _check_collisions: player p over the snacks of arena a,
\* from snack i on
RECURSIVE collisions_loop(_, _, _, _, _)
collisions_loop(g, p, a, stolen, i) ==
    IF i > Len(g.arenas[a].snacks) THEN g
    ELSE
      LET snack == g.arenas[a].snacks[i]
          p_hitbox == inflate(Player_rect(g.players[p]), 80)
          snack_hitbox == inflate(FallingSnack_rect(snack), 20)
      IN IF snack.active /\ colliderect(p_hitbox, snack_hitbox)
         THEN collisions_loop(
                [g EXCEPT !.players[p] = GameplayScreen_collect_snack(@, snack, stolen),
                          !.arenas[a].snacks[i] = FallingSnack_collect(@)],
                p, a, stolen, i + 1)
         ELSE collisions_loop(g, p, a, stolen, i + 1)

\* _check_collisions without the stolen flag in the cross-arena loops
GameplayScreen_check_collisions_steals_at_base(g) ==
    LET g1 == collisions_loop(g, 1, 1, FALSE, 1)
        g2 == collisions_loop(g1, 2, 2, FALSE, 1)
        g3 == IF Player_get_leash_state(g2.players[1]) = "extended"
              THEN collisions_loop(g2, 1, 2, FALSE, 1) ELSE g2
    IN IF Player_get_leash_state(g3.players[2]) = "extended"
       THEN collisions_loop(g3, 2, 1, FALSE, 1) ELSE g3

GameplayScreen_check_collisions(g) ==
    LET g1 == collisions_loop(g, 1, 1, FALSE, 1)
        g2 == collisions_loop(g1, 2, 2, FALSE, 1)
        g3 == IF Player_get_leash_state(g2.players[1]) = "extended"
              THEN collisions_loop(g2, 1, 2, TRUE, 1) ELSE g2
    IN IF Player_get_leash_state(g3.players[2]) = "extended"
       THEN collisions_loop(g3, 2, 1, TRUE, 1) ELSE g3

GameplayScreen_apply_vote_effect(g, vote_type) ==
    IF vote_type = "extend"
    THEN [g EXCEPT !.players[1] = Player_extend_leash(@, <<p1_cross_max>>),
                   !.players[2] = Player_extend_leash(@, <<p2_cross_max>>)]
    ELSE IF vote_type = "yank"
    THEN [g EXCEPT !.players[1] = Player_yank_leash(@),
                   !.players[2] = Player_yank_leash(@)]
    ELSE g

\* the x of a player standing in the middle of the own arena
center_x(p) == arena_bounds(p).centerx - GAMEPLAY_SIZE \div 2

GameplayScreen_start_countdown(g) ==
    [g EXCEPT !.countdown = 3,
              !.countdown_timer = 2,
              !.round_active = FALSE,
              !.walk_in_active = FALSE,
              !.players = [p \in PlayerNums |->
                  [g.players[p] EXCEPT !.x = IF g.players[p].character_id = "jazzy"
                                             THEN -1000 ELSE center_x(p)]]]

GameplayScreen_start_walk_in(g) ==
    [g EXCEPT !.walk_in_active = TRUE,
              !.walk_in_timer = walk_in_duration,
              !.players = [p \in PlayerNums |->
                  [g.players[p] EXCEPT !.y = arena_bounds(p).bottom - ground_offset]]]

\* _start_round making a new VotingSystem for the round
GameplayScreen_start_round_new_vote(g) ==
    [g EXCEPT !.round_timer = g.round_duration,
              !.round_active = TRUE,
              !.players = [p \in PlayerNums |->
                  [Player_reset(g.players[p]) EXCEPT
                      !.y = arena_bounds(p).bottom - ground_offset]],
              !.arenas = [p \in PlayerNums |-> [g.arenas[p] EXCEPT !.snacks = <<>>]],
              !.voting_system = VotingSystem_init]

GameplayScreen_start_round(g) ==
    [g EXCEPT !.round_timer = g.round_duration,
              !.round_active = TRUE,
              !.players = [p \in PlayerNums |->
                  [Player_reset(g.players[p]) EXCEPT
                      !.y = arena_bounds(p).bottom - ground_offset]],
              !.arenas = [p \in PlayerNums |-> [g.arenas[p] EXCEPT !.snacks = <<>>]]]

\* _update_walk_in starting the round with walk_in_active left set
GameplayScreen_update_walk_in_stays_active(g, dt) ==
    LET timer == g.walk_in_timer - dt
        g1 == [g EXCEPT !.walk_in_timer = timer,
                 !.players = [p \in PlayerNums |->
                     [g.players[p] EXCEPT !.x = IF g.players[p].character_id = "jazzy"
                                                THEN -1000 ELSE center_x(p)]]]
    IN IF timer <= 0
       THEN GameplayScreen_start_round(
              [g1 EXCEPT !.players = [p \in PlayerNums |->
                             [g1.players[p] EXCEPT !.x = center_x(p)]]])
       ELSE g1

GameplayScreen_update_walk_in(g, dt) ==
    LET timer == g.walk_in_timer - dt
        g1 == [g EXCEPT !.walk_in_timer = timer,
                 !.players = [p \in PlayerNums |->
                     [g.players[p] EXCEPT !.x = IF g.players[p].character_id = "jazzy"
                                                THEN -1000 ELSE center_x(p)]]]
    IN IF timer <= 0
       THEN GameplayScreen_start_round(
              [g1 EXCEPT !.walk_in_active = FALSE,
                         !.players = [p \in PlayerNums |->
                             [g1.players[p] EXCEPT !.x = center_x(p)]]])
       ELSE g1

\* _end_game naming player 1 the winner of a drawn match
GameplayScreen_end_game_tie_to_p1(g) ==
    LET winner == IF g.p1_round_wins >= g.p2_round_wins THEN "p1" ELSE "p2"
    IN [g EXCEPT !.screen = "GAME_OVER",
                 !.game_over_data = <<[winner |-> winner,
                                       p1_score |-> g.players[1].score,
                                       p2_score |-> g.players[2].score,
                                       p1_rounds |-> g.p1_round_wins,
                                       p2_rounds |-> g.p2_round_wins]>>]

GameplayScreen_end_game(g) ==
    LET winner == IF g.p1_round_wins > g.p2_round_wins THEN "p1"
                  ELSE IF g.p2_round_wins > g.p1_round_wins THEN "p2"
                  ELSE "None"
    IN [g EXCEPT !.screen = "GAME_OVER",
                 !.game_over_data = <<[winner |-> winner,
                                       p1_score |-> g.players[1].score,
                                       p2_score |-> g.players[2].score,
                                       p1_rounds |-> g.p1_round_wins,
                                       p2_rounds |-> g.p2_round_wins]>>]

\* _end_round after the round wins are credited: the match ends or the
\* next round is prepared
GameplayScreen_end_round_next(g1) ==
    LET round == g1.current_round + 1
        speed == 180 + (round - 1) * 30
        interval == Max(50, 100 - (round - 1) * 15)
        g2 == IF round <= 3
              THEN [g1 EXCEPT !.current_round = round,
                              !.current_level = round,
                              !.round_duration = round_duration,
                              !.arenas = [p \in PlayerNums |->
                                  [g1.arenas[p] EXCEPT
                                      !.fall_speed = speed,
                                      !.base_spawn_interval = interval]]]
              ELSE [g1 EXCEPT !.current_round = round]
    IN GameplayScreen_start_countdown(g2)

\* the winner determination of _end_round
GameplayScreen_credit_round(g) ==
    [g EXCEPT !.round_active = FALSE,
              !.p1_round_wins = IF g.players[1].score > g.players[2].score
                                THEN @ + 1 ELSE @,
              !.p2_round_wins = IF g.players[2].score > g.players[1].score
                                THEN @ + 1 ELSE @]

\* _end_round crediting both sides when the scores differ
GameplayScreen_end_round_credits_both(g) ==
    LET g0 == GameplayScreen_credit_round(g)
        g1 == [g0 EXCEPT !.p1_round_wins = IF g0.p2_round_wins > g.p2_round_wins
                                           THEN @ + 1 ELSE @,
                         !.p2_round_wins = IF g0.p1_round_wins > g.p1_round_wins
                                           THEN @ + 1 ELSE @]
        wins_needed == (max_rounds \div 2) + 1
    IN IF g1.p1_round_wins >= wins_needed \/ g1.p2_round_wins >= wins_needed
       THEN GameplayScreen_end_game(g1)
       ELSE IF g1.current_round >= max_rounds
       THEN GameplayScreen_end_game(g1)
       ELSE GameplayScreen_end_round_next(g1)

\* _end_round ending the match only after the last round
GameplayScreen_end_round_plays_all(g) ==
    LET g1 == GameplayScreen_credit_round(g)
    IN IF g1.current_round >= max_rounds
       THEN GameplayScreen_end_game(g1)
       ELSE GameplayScreen_end_round_next(g1)

\* _end_round giving a tied round to player 1
GameplayScreen_end_round_tie_to_p1(g) ==
    LET g0 == GameplayScreen_credit_round(g)
        g1 == [g0 EXCEPT !.p1_round_wins = IF g.players[1].score = g.players[2].score
                                           THEN @ + 1 ELSE @]
        wins_needed == (max_rounds \div 2) + 1
    IN IF g1.p1_round_wins >= wins_needed \/ g1.p2_round_wins >= wins_needed
       THEN GameplayScreen_end_game(g1)
       ELSE IF g1.current_round >= max_rounds
       THEN GameplayScreen_end_game(g1)
       ELSE GameplayScreen_end_round_next(g1)

\* _end_round playing a tied round again
GameplayScreen_end_round_replays_ties(g) ==
    LET g1 == GameplayScreen_credit_round(g)
        wins_needed == (max_rounds \div 2) + 1
    IN IF g.players[1].score = g.players[2].score
       THEN GameplayScreen_start_countdown(g1)
       ELSE IF g1.p1_round_wins >= wins_needed \/ g1.p2_round_wins >= wins_needed
       THEN GameplayScreen_end_game(g1)
       ELSE IF g1.current_round >= max_rounds
       THEN GameplayScreen_end_game(g1)
       ELSE GameplayScreen_end_round_next(g1)

GameplayScreen_end_round(g) ==
    LET g1 == GameplayScreen_credit_round(g)
        wins_needed == (max_rounds \div 2) + 1
    IN IF g1.p1_round_wins >= wins_needed \/ g1.p2_round_wins >= wins_needed
       THEN GameplayScreen_end_game(g1)
       ELSE IF g1.current_round >= max_rounds
       THEN GameplayScreen_end_game(g1)
       ELSE GameplayScreen_end_round_next(g1)

(***************************************************************************)
(* AIPlayer (entities/ai_player.py), the computer-controlled second player *)
(***************************************************************************)
\* the targets make_decision can draw when the arena holds no snack:
\* random.randint(left + 20, right - 20), its two ends
WanderTargets(p) == {arena_bounds(p).left + 20, arena_bounds(p).right - 20}

\* the snacks of a list that are active, by position in the list
ActiveSnacks(snacks) == {i \in 1..Len(snacks) : snacks[i].active}

\* AIPlayer.make_decision: the target x, <<x>>, or <<>> for None; draw holds
\* what the random calls return
AIPlayer_make_decision(pl, snacks, draw) ==
    IF snacks = <<>> THEN <<draw.wander_x>>
    ELSE IF ActiveSnacks(snacks) = {} THEN <<>>
    ELSE <<snacks[draw.pick].x + FOOD_SIZE \div 2>>

\* AIPlayer.move_toward_target for a horizontal_only player: the direction
\* is normalised to -1 or 1, also after the random perturbation
AIPlayer_move_toward_target(pl, target_position) ==
    LET dx == target_position[1] - (pl.x + GAMEPLAY_SIZE \div 2)
        distance == IF dx < 0 THEN -dx ELSE dx
        dir0 == IF dx < 0 THEN -1 ELSE 1
        dir == IF pl.controls_flipped THEN -dir0 ELSE dir0
        m == Player_get_speed_multiplier(pl)
        speed == (base_move_speed * m[1]) \div m[2]
    IN IF distance < 5 THEN [pl EXCEPT !.velocity_x = 0]
       ELSE [pl EXCEPT !.velocity_x = dir * speed]

\* AIPlayer.update: a frame is longer than reaction_delay (0.25 s), so the
\* decision timer runs out in every call and a decision is made in each
AIPlayer_update(pl, dt, snacks, draw) ==
    LET target_position == AIPlayer_make_decision(pl, snacks, draw)
        pl1 == IF target_position # <<>>
               THEN AIPlayer_move_toward_target(pl, target_position)
               ELSE pl
        b == arena_bounds(pl.player_num)
        new_x == pl1.x + Displacement(pl1.velocity_x, dt)
        clamped == Max(b.left, Min(new_x, b.right - GAMEPLAY_SIZE))
    IN Player_update_effects([pl1 EXCEPT !.x = clamped], dt)

\* GameplayScreen.on_enter; vs_ai and p1_character are the entries of data,
\* p2_character is "biggie"
GameplayScreen_on_enter_data(vs_ai, p1_character) ==
    GameplayScreen_start_countdown(
        [screen |-> "GAMEPLAY",
         game_over_data |-> <<>>,
         vs_ai |-> vs_ai,
         current_level |-> 1,
         current_round |-> 1,
         p1_round_wins |-> 0,
         p2_round_wins |-> 0,
         paused |-> FALSE,
         round_timer |-> 0,
         round_duration |-> round_duration,
         round_active |-> FALSE,
         countdown |-> 0,
         countdown_timer |-> 0,
         walk_in_active |-> FALSE,
         walk_in_timer |-> 0,
         players |-> [p \in PlayerNums |->
                        Player_init(p, vs_ai /\ p = 2,
                                    IF p = 1 THEN p1_character ELSE "biggie")],
         arenas |-> [p \in PlayerNums |-> Arena_init(p)],
         voting_system |-> VotingSystem_init])

\* GameplayScreen.on_enter for a two-player match of "jazzy" against "biggie"
GameplayScreen_on_enter == GameplayScreen_on_enter_data(FALSE, "jazzy")

\* GameplayScreen.update in the active phase of a round, from the vote
\* system to the arenas: all of it but the final _check_collisions
GameplayScreen_update_round(g, timer, dt, keys, draws) ==
    LET r == VotingSystem_update(g.voting_system, dt)
        g1 == GameplayScreen_apply_vote_effect(
                [g EXCEPT !.round_timer = timer, !.voting_system = r.vs], r.ret)
        g2 == [g1 EXCEPT !.players = [p \in PlayerNums |->
                 IF p = 2 /\ g1.vs_ai
                 THEN AIPlayer_update(g1.players[p], dt, g1.arenas[p].snacks,
                                      draws[p])
                 ELSE Player_update(Player_handle_input(g1.players[p], keys[p]),
                                    dt)]]
    IN [g2 EXCEPT !.arenas = [p \in PlayerNums |->
            Arena_update(g2.arenas[p], p, dt, draws[p])]]

\* update running the vote system, the players, the arenas and the
\* collisions also in the call in which the round timer runs out
GameplayScreen_update_ends_round_last(g, dt, keys, draws) ==
    IF g.paused THEN g
    ELSE IF g.countdown > 0
    THEN LET timer == g.countdown_timer - dt
         IN IF timer <= 0
            THEN LET g1 == [g EXCEPT !.countdown = @ - 1, !.countdown_timer = 2]
                 IN IF g1.countdown = 0 THEN GameplayScreen_start_walk_in(g1) ELSE g1
            ELSE [g EXCEPT !.countdown_timer = timer]
    ELSE IF g.walk_in_active THEN GameplayScreen_update_walk_in(g, dt)
    ELSE IF ~g.round_active THEN g
    ELSE
      LET timer == g.round_timer - dt
          g1 == GameplayScreen_check_collisions(
                  GameplayScreen_update_round(g, timer, dt, keys, draws))
      IN IF timer <= 0 THEN GameplayScreen_end_round(g1) ELSE g1

\* GameplayScreen.update; keys[p] are the held keys of player p, draws[p]
\* what the random calls of arena p (and of an AI player p) return
\* update without the return for a round that is not active
GameplayScreen_update_runs_ended_round(g, dt, keys, draws) ==
    IF g.paused THEN g
    ELSE IF g.countdown > 0
    THEN LET timer == g.countdown_timer - dt
         IN IF timer <= 0
            THEN LET g1 == [g EXCEPT !.countdown = @ - 1, !.countdown_timer = 2]
                 IN IF g1.countdown = 0 THEN GameplayScreen_start_walk_in(g1) ELSE g1
            ELSE [g EXCEPT !.countdown_timer = timer]
    ELSE IF g.walk_in_active THEN GameplayScreen_update_walk_in(g, dt)
    ELSE
      LET timer == g.round_timer - dt
      IN IF timer <= 0
         THEN GameplayScreen_end_round([g EXCEPT !.round_timer = timer])
         ELSE GameplayScreen_check_collisions(
                GameplayScreen_update_round(g, timer, dt, keys, draws))

\* update running the countdown of a paused screen
GameplayScreen_update_counts_down_paused(g, dt, keys, draws) ==
    IF g.paused /\ g.countdown = 0 THEN g
    ELSE IF g.countdown > 0
    THEN LET timer == g.countdown_timer - dt
         IN IF timer <= 0
            THEN LET g1 == [g EXCEPT !.countdown = @ - 1, !.countdown_timer = 2]
                 IN IF g1.countdown = 0 THEN GameplayScreen_start_walk_in(g1) ELSE g1
            ELSE [g EXCEPT !.countdown_timer = timer]
    ELSE IF g.walk_in_active THEN GameplayScreen_update_walk_in(g, dt)
    ELSE IF ~g.round_active THEN g
    ELSE
      LET timer == g.round_timer - dt
      IN IF timer <= 0
         THEN GameplayScreen_end_round([g EXCEPT !.round_timer = timer])
         ELSE GameplayScreen_check_collisions(
                GameplayScreen_update_round(g, timer, dt, keys, draws))

GameplayScreen_update(g, dt, keys, draws) ==
    IF g.paused THEN g
    ELSE IF g.countdown > 0
    THEN LET timer == g.countdown_timer - dt
         IN IF timer <= 0
            THEN LET g1 == [g EXCEPT !.countdown = @ - 1, !.countdown_timer = 2]
                 IN IF g1.countdown = 0 THEN GameplayScreen_start_walk_in(g1) ELSE g1
            ELSE [g EXCEPT !.countdown_timer = timer]
    ELSE IF g.walk_in_active THEN GameplayScreen_update_walk_in(g, dt)
    ELSE IF ~g.round_active THEN g
    ELSE
      LET timer == g.round_timer - dt
      IN IF timer <= 0
         THEN GameplayScreen_end_round([g EXCEPT !.round_timer = timer])
         ELSE GameplayScreen_check_collisions(
                GameplayScreen_update_round(g, timer, dt, keys, draws))

(***************************************************************************)
(* Twitch chat votes (interaction/twitch_chat.py): the bot thread posts    *)
(* TWITCH_VOTE_EVENTs to the pygame event queue, the main loop of Game.run *)
(* drains the queue into GameplayScreen.handle_event before update(dt).    *)
(* c.pc is the place of the main loop: "get" before pygame.event.get(),    *)
(* "events" in the loop over the events it returned, which update(dt)      *)
(* follows.  c.calls records the add_vote calls made: the number of the    *)
(* event, its vote, what add_vote returned and where the main loop stood.  *)
(***************************************************************************)
TwitchChat_init ==
    [voting_system |-> VotingSystem_init, queue |-> <<>>, events |-> <<>>,
     pc |-> "get", posted |-> 0, calls |-> <<>>]

\* pygame.event.post from the bot thread: the event joins the queue
pygame_event_post(c, vote_type, voter_id) ==
    [c EXCEPT !.queue = Append(@, [n |-> c.posted + 1, vote_type |-> vote_type,
                                   voter_id |-> voter_id]),
              !.posted = @ + 1]

\* the TWITCH_VOTE_EVENT branch of GameplayScreen.handle_event
GameplayScreen_handle_event(c, event) ==
    LET r == VotingSystem_add_vote(c.voting_system, event.vote_type, event.voter_id)
    IN [c EXCEPT !.voting_system = r.vs,
                 !.calls = Append(@, [n |-> event.n, vote_type |-> event.vote_type,
                                      voter_id |-> event.voter_id,
                                      ret |-> r.ret, at |-> c.pc])]

\* event_message casting the vote itself, on the bot thread
BotImpl_event_message_votes_directly(c, content, author_name) ==
    IF content \in {"!extend", "!yank"}
    THEN GameplayScreen_handle_event(
            [c EXCEPT !.posted = @ + 1],
            [n |-> c.posted + 1,
             vote_type |-> IF content = "!extend" THEN "extend" ELSE "yank",
             voter_id |-> author_name])
    ELSE c

\* BotImpl.event_message: content is the stripped, lower-cased message
BotImpl_event_message(c, content, author_name) ==
    IF content = "!extend" THEN pygame_event_post(c, "extend", author_name)
    ELSE IF content = "!yank" THEN pygame_event_post(c, "yank", author_name)
    ELSE c

(***************************************************************************)
(* The VotingSystem driven through its interface                           *)
(***************************************************************************)
InitVotingSystem ==
    /\ voting_system = VotingSystem_init
    /\ vs_ret = "None"
    /\ vs_op = <<"init">>
    /\ vote_log = <<>>
    /\ phase_elapsed = 0
    /\ vs_before = [vs |-> VotingSystem_init, elapsed |-> 0]
    /\ chat = TwitchChat_init

InitPlayers ==
    /\ players = [p \in PlayerNums |-> Player_init(p, FALSE, "dog")]
    /\ player_op = <<"init", 0, <<>>>>
    /\ leash_elapsed = -1

InitTreatAttack == treat_attack = TreatAttack_on_enter

\* the snacks a hitbox reaches in _check_collisions, read off the state g
\* the call leaves: <<p, a, i>> when player p overlaps snack i of arena a,
\* the snack was active before the call (it still is, or the call collected
\* it) and a is the own arena or p is "extended"
Overlaps(g) ==
    UNION {LET p_hitbox == inflate(Player_rect(g.players[pa[1]]), 80)
               snacks == g.arenas[pa[2]].snacks
           IN IF pa[1] = pa[2] \/ Player_get_leash_state(g.players[pa[1]]) = "extended"
              THEN {<<pa[1], pa[2], i>> : i \in {k \in 1..Len(snacks) :
                       /\ (snacks[k].active \/ snacks[k].collected)
                       /\ colliderect(p_hitbox,
                                      inflate(FallingSnack_rect(snacks[k]), 20))}}
              ELSE {} :
           pa \in PlayerNums \X PlayerNums}

\* the leash of a player: its bounds and the time its effect has left
LeashFields(pl) == <<pl.leash_min_x, pl.leash_max_x, pl.leash_effect_timer>>

\* the record of an update call that did nothing in the active phase
NoTick == [overlaps |-> {}, collected |-> {}, gains |-> <<0, 0>>,
           leash_before |-> <<>>]

\* the record of an update call that took g to after: in the active phase
\* of a round (Arena.update has dropped the snacks collected earlier), what
\* the hitboxes reached, the snacks <<a, i>> the call collected, the
\* points it added to each score and, when the call closed the vote, the
\* leashes of the players before it
TickRecord(g, after) ==
    IF /\ ~g.paused /\ g.countdown = 0 /\ ~g.walk_in_active /\ g.round_active
       /\ after.screen = "GAMEPLAY" /\ after.round_active
    THEN [overlaps |-> Overlaps(after),
          collected |-> UNION {{<<a, i>> : i \in {k \in 1..Len(after.arenas[a].snacks) :
                                   after.arenas[a].snacks[k].collected}} :
                               a \in PlayerNums},
          gains |-> [p \in PlayerNums |-> after.players[p].score - g.players[p].score],
          leash_before |->
             IF g.voting_system.voting_active /\ ~after.voting_system.voting_active
             THEN [p \in PlayerNums |-> LeashFields(g.players[p])]
             ELSE <<>>]
    ELSE NoTick

\* the GameplayScreen as on_enter leaves it
InitGameplayScreen ==
    /\ game = GameplayScreen_on_enter
    /\ game_prev = [ended_round |-> FALSE,
                    p1_round_wins |-> 0, p2_round_wins |-> 0,
                    current_round |-> 1, phase |-> "COUNTDOWN",
                    voting_timers |-> <<>>, scores |-> <<>>, before |-> <<>>]
    /\ game_tick = NoTick
    /\ game_frames = 0

Init == InitVotingSystem /\ InitPlayers /\ InitTreatAttack /\ InitGameplayScreen

\* a caller casts a vote
AddVote(vote_type, voter_id) ==
    LET r == VotingSystem_add_vote(voting_system, vote_type, voter_id)
    IN /\ r.ret = "True" => Len(vote_log) < MaxLog
       /\ voting_system' = r.vs
       /\ vs_ret' = r.ret
       /\ vs_op' = <<"add_vote", vote_type, voter_id>>
       /\ vote_log' = IF r.ret = "True" THEN Append(vote_log, <<vote_type, voter_id>>)
                      ELSE vote_log
       /\ UNCHANGED phase_elapsed
       /\ vs_before' = [vs |-> voting_system, elapsed |-> phase_elapsed]
       /\ UNCHANGED <<chat, player_vars, treat_attack, game_vars>>

\* a frame advances the voting clock
VotingUpdate(dt) ==
    LET r == VotingSystem_update(voting_system, dt)
    IN /\ voting_system' = r.vs
       /\ vs_ret' = r.ret
       /\ vs_op' = <<"update", dt>>
       /\ vote_log' = IF ~voting_system.voting_active /\ r.vs.voting_active
                      THEN <<>> ELSE vote_log
       /\ phase_elapsed' = IF voting_system.voting_active = r.vs.voting_active
                           THEN phase_elapsed + dt ELSE 0
       /\ vs_before' = [vs |-> voting_system, elapsed |-> phase_elapsed]
       /\ UNCHANGED <<chat, player_vars, treat_attack, game_vars>>

NextVoting ==
    \/ \E t \in VoteInputs, u \in Voters : AddVote(t, u)
    \/ \E dt \in DTs : VotingUpdate(dt)

SpecVoting == Init /\ [][NextVoting]_vars

(***************************************************************************)
(* The chat thread and the main loop running side by side                  *)
(***************************************************************************)
\* frames of 5 s
ChatDTs == {10}

\* the bot thread receives a chat message
ChatMessage(content, author_name) ==
    /\ chat.posted < MaxPosts
    /\ chat' = BotImpl_event_message(chat, content, author_name)
    /\ UNCHANGED <<voting_system, vs_ret, vs_op, vote_log, phase_elapsed, vs_before,
                   player_vars, treat_attack, game_vars>>

\* Game._handle_events: pygame.event.get() takes the queue
RunGetEvents ==
    /\ chat.pc = "get"
    /\ chat' = [chat EXCEPT !.events = chat.queue, !.queue = <<>>, !.pc = "events"]
    /\ UNCHANGED <<voting_system, vs_ret, vs_op, vote_log, phase_elapsed, vs_before,
                   player_vars, treat_attack, game_vars>>

\* the loop of Game._handle_events hands the next event to the screen
RunHandleEvent ==
    /\ chat.pc = "events"
    /\ chat.events # <<>>
    /\ chat' = [GameplayScreen_handle_event(chat, Head(chat.events))
                   EXCEPT !.events = Tail(chat.events)]
    /\ UNCHANGED <<voting_system, vs_ret, vs_op, vote_log, phase_elapsed, vs_before,
                   player_vars, treat_attack, game_vars>>

\* the loop of Game._handle_events is through: current_screen.update(dt),
\* the voting system's share of it
RunUpdate(dt) ==
    /\ chat.pc = "events"
    /\ chat.events = <<>>
    /\ chat' = [chat EXCEPT !.voting_system = VotingSystem_update(@, dt).vs,
                            !.pc = "get"]
    /\ UNCHANGED <<voting_system, vs_ret, vs_op, vote_log, phase_elapsed, vs_before,
                   player_vars, treat_attack, game_vars>>

NextChat ==
    \/ \E content \in {"!extend", "!yank", "hello"}, author_name \in Voters :
          ChatMessage(content, author_name)
    \/ RunGetEvents
    \/ RunHandleEvent
    \/ \E dt \in ChatDTs : RunUpdate(dt)

SpecChat == Init /\ [][NextChat]_vars

(***************************************************************************)
(* One Player object driven through its leash and movement interface       *)
(***************************************************************************)
CrossArgs == {<<>>, <<p1_cross_max>>, <<p2_cross_max>>}
KeyStates == {[left |-> l, right |-> r] : l, r \in BOOLEAN}

\* the calls are made on one Player object; the other one is left as built
OnlyObject(p) == players[Other(p)] = Player_init(Other(p), FALSE, "dog")

LeashExtend(p, cross) ==
    /\ OnlyObject(p)
    /\ players' = [players EXCEPT ![p] = Player_extend_leash(@, cross)]
    /\ player_op' = <<"extend_leash", p, cross>>
    /\ UNCHANGED <<leash_elapsed, voting_vars, treat_attack, game_vars>>

LeashYank(p) ==
    /\ OnlyObject(p)
    /\ players' = [players EXCEPT ![p] = Player_yank_leash(@)]
    /\ player_op' = <<"yank_leash", p, <<>>>>
    /\ UNCHANGED <<leash_elapsed, voting_vars, treat_attack, game_vars>>

LeashHandleInput(p, keys) ==
    /\ OnlyObject(p)
    /\ players' = [players EXCEPT ![p] = Player_handle_input(@, keys)]
    /\ player_op' = <<"handle_input", p, <<>>>>
    /\ UNCHANGED <<leash_elapsed, voting_vars, treat_attack, game_vars>>

LeashUpdate(p, dt) ==
    /\ OnlyObject(p)
    /\ players' = [players EXCEPT ![p] = Player_update(@, dt)]
    /\ player_op' = <<"update", p, <<dt>>>>
    /\ UNCHANGED <<leash_elapsed, voting_vars, treat_attack, game_vars>>

NextLeash ==
    \/ \E p \in PlayerNums, cross \in CrossArgs : LeashExtend(p, cross)
    \/ \E p \in PlayerNums : LeashYank(p)
    \/ \E p \in PlayerNums, keys \in KeyStates : LeashHandleInput(p, keys)
    \/ \E p \in PlayerNums, dt \in DTs : LeashUpdate(p, dt)

SpecLeash == Init /\ [][NextLeash]_vars

(***************************************************************************)
(* The two Player objects of a match against the computer, driven as the   *)
(* active phase of GameplayScreen.update drives them                       *)
(***************************************************************************)
InitLeashTicks ==
    /\ InitVotingSystem /\ InitTreatAttack /\ InitGameplayScreen
    /\ players = [p \in PlayerNums |-> Player_init(p, p = 2, "dog")]
    /\ player_op = <<"init", 0, <<>>>>
    /\ leash_elapsed = -1

\* update: the vote system returns a winner and _apply_vote_effect is called
TicksVoteEffect(vote_type) ==
    /\ players' = GameplayScreen_apply_vote_effect([players |-> players],
                                                   vote_type).players
    /\ player_op' = <<"apply_vote_effect", 0, <<vote_type>>>>
    /\ leash_elapsed' = 0
    /\ UNCHANGED <<voting_vars, treat_attack, game_vars>>

\* update: the players are updated, the AI in an arena without snacks
TicksUpdate(dt, keys, draw) ==
    /\ players' = [p \in PlayerNums |->
                     IF players[p].is_ai
                     THEN AIPlayer_update(players[p], dt, <<>>, draw)
                     ELSE Player_update(Player_handle_input(players[p], keys), dt)]
    /\ player_op' = <<"update", 0, <<dt>>>>
    /\ leash_elapsed' = IF leash_elapsed < 0 THEN -1
                        ELSE Min(leash_elapsed + dt, leash_effect_duration + MaxDt)
    /\ UNCHANGED <<voting_vars, treat_attack, game_vars>>

NextLeashTicks ==
    \/ \E vote_type \in VoteTypes : TicksVoteEffect(vote_type)
    \/ \E dt \in DTs, keys \in KeyStates, x \in WanderTargets(2) :
          TicksUpdate(dt, keys, [wander_x |-> x, pick |-> 0])

SpecLeashTicks == InitLeashTicks /\ [][NextLeashTicks]_vars

(***************************************************************************)
(* One Player object collecting snacks                                     *)
(***************************************************************************)
NewSnack(cfg) ==
    [snack_id |-> cfg.id, point_value |-> cfg.point_value, effect |-> cfg.effect,
     active |-> TRUE, collected |-> FALSE]

ScoreCollect(p, cfg, stolen) ==
    /\ OnlyObject(p)
    /\ players[p].score <= MaxScore
    /\ cfg.effect # <<>> => Len(players[p].active_effects) < MaxEffects
    /\ players' = [players EXCEPT ![p] =
                      GameplayScreen_collect_snack(@, NewSnack(cfg), stolen)]
    /\ player_op' = <<"collect_snack", p,
                      <<collect_points(players[p], cfg.point_value, stolen),
                        players[p].score>>>>
    /\ UNCHANGED <<leash_elapsed, voting_vars, treat_attack, game_vars>>

ScoreUpdateEffects(p, dt) ==
    /\ OnlyObject(p)
    /\ players' = [players EXCEPT ![p] = Player_update_effects(@, dt)]
    /\ player_op' = <<"update_effects", p, <<dt>>>>
    /\ UNCHANGED <<leash_elapsed, voting_vars, treat_attack, game_vars>>

ScoreReset(p) ==
    /\ OnlyObject(p)
    /\ players' = [players EXCEPT ![p] = Player_reset(@)]
    /\ player_op' = <<"reset", p, <<>>>>
    /\ UNCHANGED <<leash_elapsed, voting_vars, treat_attack, game_vars>>

NextScore ==
    \/ \E p \in PlayerNums, cfg \in SnackConfigs, stolen \in BOOLEAN :
          ScoreCollect(p, cfg, stolen)
    \/ \E p \in PlayerNums, dt \in DTs : ScoreUpdateEffects(p, dt)
    \/ \E p \in PlayerNums : ScoreReset(p)

SpecScore == Init /\ [][NextScore]_vars

(***************************************************************************)
(* The Treat Attack screen driven by frames, keys and chat commands        *)
(***************************************************************************)
KeysHeld == {"left", "right", "none"}
Commands == {"!extend", "!help", "!yank", "!hinder", "!dance"}
SpawnChoices ==
    UNION {{FallingTreat_init(config, x) : x \in SpawnColumns(config)} :
             config \in TreatTypes}

\* the treats _spawn_treat can draw in a frame of dt: it draws only when
\* the spawn timer runs out in that frame
SpawnDraws(ta, dt) ==
    IF /\ ~ta.paused
       /\ ta.time_remaining - dt > 0
       /\ ta.spawn_timer + dt >= ta_spawn_interval
    THEN SpawnChoices
    ELSE {FallingTreat_init(CHOOSE config \in TreatTypes : config.id = "normal",
                            CHOOSE x \in TreatColumns : TRUE)}

\* one frame: Game.run calls update(dt) on the current screen
TAUpdate(dt, keys, spawn) ==
    /\ ~treat_attack.game_over
    /\ treat_attack' = TreatAttack_update(treat_attack, dt, keys, spawn)
    /\ UNCHANGED <<voting_vars, player_vars, game_vars>>

\* handle_event, MOUSEBUTTONDOWN: the chat input takes the focus when the
\* click is inside its rectangle and loses it otherwise
TAChatClick(inside) ==
    /\ ~treat_attack.game_over
    /\ treat_attack' = [treat_attack EXCEPT !.chat_active = inside]
    /\ UNCHANGED <<voting_vars, player_vars, game_vars>>

\* handle_event, K_RETURN in the focused chat input submits its text
TACommand(command) ==
    /\ ~treat_attack.game_over
    /\ treat_attack.chat_active
    /\ treat_attack.voting_meter.extend_votes + treat_attack.voting_meter.yank_votes
          < MaxMeterVotes
    /\ treat_attack' = TreatAttack_process_command(treat_attack, command)
    /\ UNCHANGED <<voting_vars, player_vars, game_vars>>

NextTreatAttack ==
    \/ \E dt \in DTs, keys \in KeysHeld :
          \E spawn \in SpawnDraws(treat_attack, dt) : TAUpdate(dt, keys, spawn)
    \/ \E inside \in BOOLEAN : TAChatClick(inside)
    \/ \E command \in Commands : TACommand(command)

SpecTreatAttack == Init /\ [][NextTreatAttack]_vars

(***************************************************************************)
(* The GameplayScreen driven by frames, keys and vote events               *)
(***************************************************************************)
\* the split-screen game runs at a fixed frame time of half a second
GameDTs == {1}
NoKeys == [left |-> FALSE, right |-> FALSE]
GameKeys == {NoKeys, [left |-> TRUE, right |-> FALSE]}

\* what the random calls of arena p can return in a frame of dt: they are
\* made only when the spawn timer of the arena runs out in that frame
ArenaDraws(g, p, dt) ==
    LET arena == g.arenas[p]
        spawning == /\ ~g.paused /\ g.countdown = 0 /\ ~g.walk_in_active
                    /\ g.round_active /\ g.round_timer - dt > 0
                    /\ arena.spawn_timer - dt <= 0
    IN IF spawning
       THEN {[config |-> config, x |-> x, delay |-> delay] :
               config \in SnackPool, x \in SnackColumns(p),
               delay \in SpawnDelays(arena.base_spawn_interval)}
       ELSE {[config |-> CHOOSE config \in SnackPool : TRUE,
              x |-> CHOOSE x \in SnackColumns(p) : TRUE,
              delay |-> 0]}

\* the phase of the round the flags of the screen stand for
Phase(g) ==
    IF g.screen = "GAME_OVER" THEN "MATCH_END"
    ELSE IF g.countdown > 0 THEN "COUNTDOWN"
    ELSE IF g.walk_in_active THEN "WALK_IN"
    ELSE IF g.round_active THEN "ACTIVE"
    ELSE "ROUND_END"

\* update(dt) reaches _end_round
EndsRound(g, dt) ==
    /\ ~g.paused /\ g.countdown = 0 /\ ~g.walk_in_active
    /\ g.round_active /\ g.round_timer - dt <= 0

\* the record of a call: whether it ended a round, what the round counters
\* and the phase and (for a call that ends a round) the timers of the vote
\* system and the scores were before it; before is for the calls that are
\* watched, which put into it the whole screen as it was and the call
GameCall(ended) ==
    [ended_round |-> ended,
     p1_round_wins |-> game.p1_round_wins,
     p2_round_wins |-> game.p2_round_wins,
     current_round |-> game.current_round,
     phase |-> Phase(game),
     voting_timers |-> IF ended THEN <<game.voting_system.voting_timer,
                                       game.voting_system.cooldown_timer>>
                       ELSE <<>>,
     scores |-> IF ended THEN <<game.players[1].score, game.players[2].score>>
                ELSE <<>>,
     before |-> <<>>]

\* one frame: Game.run calls update(dt) on the current screen
GameUpdate(dt, keys, draws) ==
    /\ game.screen = "GAMEPLAY"
    /\ game' = GameplayScreen_update(game, dt, keys, draws)
    /\ game_prev' = GameCall(EndsRound(game, dt))
    /\ game_tick' = TickRecord(game, game')
    /\ game_frames' = IF game.paused THEN game_frames ELSE (game_frames + 1) % 2
    /\ UNCHANGED <<voting_vars, player_vars, treat_attack>>

\* handle_event, K_ESCAPE
GamePauseKey ==
    /\ game.screen = "GAMEPLAY"
    /\ game' = [game EXCEPT !.paused = ~@]
    /\ game_prev' = GameCall(FALSE)
    /\ UNCHANGED <<game_tick, game_frames>>
    /\ UNCHANGED <<voting_vars, player_vars, treat_attack>>

\* handle_event, K_RETURN while paused
GameResumeKey ==
    /\ game.screen = "GAMEPLAY"
    /\ game.paused
    /\ game' = [game EXCEPT !.paused = FALSE]
    /\ game_prev' = GameCall(FALSE)
    /\ UNCHANGED <<game_tick, game_frames>>
    /\ UNCHANGED <<voting_vars, player_vars, treat_attack>>

\* handle_event, K_q while paused
GameQuitKey ==
    /\ game.screen = "GAMEPLAY"
    /\ game.paused
    /\ game' = [game EXCEPT !.screen = "MAIN_MENU"]
    /\ game_prev' = GameCall(FALSE)
    /\ UNCHANGED <<game_tick, game_frames>>
    /\ UNCHANGED <<voting_vars, player_vars, treat_attack>>

\* handle_event, TWITCH_VOTE_EVENT
GameVote(vote_type, voter_id) ==
    /\ game.screen = "GAMEPLAY"
    /\ game' = [game EXCEPT !.voting_system =
                   VotingSystem_add_vote(@, vote_type, voter_id).vs]
    /\ game_prev' = GameCall(FALSE)
    /\ UNCHANGED <<game_tick, game_frames>>
    /\ UNCHANGED <<voting_vars, player_vars, treat_attack>>

NextGame ==
    \/ \E dt \in GameDTs, keys1, keys2 \in GameKeys :
         \E draw1 \in ArenaDraws(game, 1, dt), draw2 \in ArenaDraws(game, 2, dt) :
            GameUpdate(dt, <<keys1, keys2>>, <<draw1, draw2>>)
    \/ GamePauseKey
    \/ GameResumeKey
    \/ GameQuitKey
    \/ \E vote_type \in VoteInputs, voter_id \in Voters : GameVote(vote_type, voter_id)

SpecGame == Init /\ [][NextGame]_vars

(***************************************************************************)
(* The GameplayScreen ticking unpaused: Game.run calls update in every     *)
(* frame, so the count of update calls keeps advancing for as long as the  *)
(* screen is the current one                                               *)
(***************************************************************************)
\* a step in which update is called on the unpaused screen
FrameCalled == game.screen = "GAMEPLAY" /\ game_frames' = (game_frames + 1) % 2

GameFrame ==
    \E dt \in GameDTs, keys1, keys2 \in GameKeys :
       \E draw1 \in ArenaDraws(game, 1, dt), draw2 \in ArenaDraws(game, 2, dt) :
          GameUpdate(dt, <<keys1, keys2>>, <<draw1, draw2>>)

NextGameLive ==
    \/ GameFrame
    \/ \E vote_type \in VoteInputs, voter_id \in Voters : GameVote(vote_type, voter_id)

SpecGameLive == Init /\ [][NextGameLive]_vars /\ WF_game_frames(FrameCalled)

(***************************************************************************)
(* The GameplayScreen with player 1 walking to the right, into the arena   *)
(* of player 2 once the leash is extended                                  *)
(***************************************************************************)
CrossKeys == {NoKeys, [left |-> FALSE, right |-> TRUE]}

NextGameCross ==
    \/ \E dt \in GameDTs, keys1 \in CrossKeys :
         \E draw1 \in ArenaDraws(game, 1, dt), draw2 \in ArenaDraws(game, 2, dt) :
            GameUpdate(dt, <<keys1, NoKeys>>, <<draw1, draw2>>)
    \/ GamePauseKey
    \/ GameResumeKey
    \/ GameQuitKey
    \/ \E vote_type \in VoteInputs, voter_id \in Voters : GameVote(vote_type, voter_id)

SpecGameCross == Init /\ [][NextGameCross]_vars

(***************************************************************************)
(* The same with player 2 holding the left key, away from the spot the    *)
(* snacks of arena 2 fall on                                               *)
(***************************************************************************)
NextGameSteal ==
    \/ \E dt \in GameDTs, keys1 \in CrossKeys :
         \E draw1 \in ArenaDraws(game, 1, dt), draw2 \in ArenaDraws(game, 2, dt) :
            GameUpdate(dt, <<keys1, [left |-> TRUE, right |-> FALSE]>>, <<draw1, draw2>>)
    \/ GamePauseKey
    \/ GameResumeKey
    \/ GameQuitKey
    \/ \E vote_type \in VoteInputs, voter_id \in Voters : GameVote(vote_type, voter_id)

SpecGameSteal == Init /\ [][NextGameSteal]_vars

(***************************************************************************)
(* The GameplayScreen with its calls watched outside the running round:    *)
(* update calls and Twitch votes during the countdown, the walk-in and the *)
(* pause, the RETURN key that ends the pause, and update calls after       *)
(* _end_game has handed over to the game over screen.  A call is           *)
(* <<"update">>, <<"K_RETURN">> or <<"TWITCH_VOTE_EVENT", vote_type,       *)
(* voter_id>>                                                              *)
(***************************************************************************)
GameWatchedCall(call, dt, keys, draws) ==
    /\ \/ call[1] = "update" /\ (game.paused \/ Phase(game) # "ACTIVE")
       \/ call[1] = "K_RETURN" /\ game.screen = "GAMEPLAY" /\ game.paused
       \/ /\ call[1] = "TWITCH_VOTE_EVENT" /\ game.screen = "GAMEPLAY"
          /\ (game.paused \/ Phase(game) # "ACTIVE")
    /\ game' = CASE call[1] = "update" ->
                     GameplayScreen_update(game, dt, keys, draws)
                 [] call[1] = "K_RETURN" -> [game EXCEPT !.paused = FALSE]
                 [] OTHER ->
                     [game EXCEPT !.voting_system =
                         VotingSystem_add_vote(@, call[2], call[3]).vs]
    /\ game_prev' = [GameCall(FALSE) EXCEPT !.before = <<game, call>>]
    /\ game_tick' = TickRecord(game, game')
    /\ UNCHANGED game_frames
    /\ UNCHANGED <<voting_vars, player_vars, treat_attack>>

\* the calls that are watched; the votes are those of one chat user
WatchedCalls ==
    {<<"update">>, <<"K_RETURN">>}
       \cup {<<"TWITCH_VOTE_EVENT", vote_type, 1>> : vote_type \in VoteInputs}

NextGameWatched ==
    \/ \E dt \in GameDTs, keys1 \in CrossKeys :
         \E draw1 \in ArenaDraws(game, 1, dt), draw2 \in ArenaDraws(game, 2, dt) :
            /\ ~game.paused /\ Phase(game) = "ACTIVE"
            /\ GameUpdate(dt, <<keys1, [left |-> TRUE, right |-> FALSE]>>,
                          <<draw1, draw2>>)
    \/ GamePauseKey
    \/ \E dt \in DTs, keys1 \in CrossKeys :
         \E draw1 \in ArenaDraws(game, 1, dt), draw2 \in ArenaDraws(game, 2, dt) :
            GameWatchedCall(<<"update">>, dt,
                            <<keys1, [left |-> TRUE, right |-> FALSE]>>,
                            <<draw1, draw2>>)
    \/ \E call \in WatchedCalls \ {<<"update">>} :
         GameWatchedCall(call, 0, <<NoKeys, NoKeys>>, <<>>)

SpecGameWatched == Init /\ [][NextGameWatched]_vars

(***************************************************************************)
(* The GameplayScreen of a match of "dash" against the computer (vs_ai)    *)
(***************************************************************************)
InitGameAI ==
    /\ InitVotingSystem /\ InitPlayers /\ InitTreatAttack
    /\ game = GameplayScreen_on_enter_data(TRUE, "dash")
    /\ game_prev = [ended_round |-> FALSE,
                    p1_round_wins |-> 0, p2_round_wins |-> 0,
                    current_round |-> 1, phase |-> "COUNTDOWN",
                    voting_timers |-> <<>>, scores |-> <<>>, before |-> <<>>]
    /\ game_tick = NoTick
    /\ game_frames = 0

\* random.randint(left + padding, right - padding - snack_size): for the
\* arena of the AI a column at the right end of the arena
AISnackColumns(p) ==
    IF p = 2 THEN {arena_bounds(p).right - 100} ELSE SnackColumns(p)

\* what the random calls of arena p and of the AI player can return in a
\* frame of dt
AIArenaDraws(g, p, dt) ==
    LET arena == g.arenas[p]
        active == /\ ~g.paused /\ g.countdown = 0 /\ ~g.walk_in_active
                  /\ g.round_active /\ g.round_timer - dt > 0
        spawns == IF active /\ arena.spawn_timer - dt <= 0
                  THEN {[config |-> config, x |-> x, delay |-> delay] :
                          config \in SnackPool, x \in AISnackColumns(p),
                          delay \in SpawnDelays(arena.base_spawn_interval)}
                  ELSE {[config |-> CHOOSE config \in SnackPool : TRUE,
                         x |-> CHOOSE x \in AISnackColumns(p) : TRUE,
                         delay |-> 0]}
        decisions == IF active /\ p = 2 /\ arena.snacks = <<>>
                     THEN {[wander_x |-> x, pick |-> 0] : x \in WanderTargets(p)}
                     ELSE IF active /\ p = 2 /\ ActiveSnacks(arena.snacks) # {}
                     THEN {[wander_x |-> 0, pick |-> i] :
                             i \in ActiveSnacks(arena.snacks)}
                     ELSE {[wander_x |-> 0, pick |-> 0]}
    IN {[config |-> s.config, x |-> s.x, delay |-> s.delay,
         wander_x |-> d.wander_x, pick |-> d.pick] : s \in spawns, d \in decisions}

NextGameAI ==
    \/ \E dt \in GameDTs, keys1 \in GameKeys :
         \E draw1 \in AIArenaDraws(game, 1, dt), draw2 \in AIArenaDraws(game, 2, dt) :
            GameUpdate(dt, <<keys1, NoKeys>>, <<draw1, draw2>>)
    \/ GamePauseKey
    \/ GameResumeKey
    \/ GameQuitKey
    \/ \E vote_type \in VoteInputs, voter_id \in Voters : GameVote(vote_type, voter_id)

SpecGameAI == InitGameAI /\ [][NextGameAI]_vars

(***************************************************************************)
(* Reference definitions over the log of accepted votes                    *)
(***************************************************************************)
\* positions of the log at which voter u voted
VotesOf(log, u) == {i \in 1..Len(log) : log[i][2] = u}

\* the option voter u voted for last, "none" when u has not voted
FinalVote(log, u) ==
    IF VotesOf(log, u) = {} THEN "none"
    ELSE log[CHOOSE i \in VotesOf(log, u) : \A j \in VotesOf(log, u) : j <= i][1]

FinalCount(log, t) == Cardinality({u \in Voters : FinalVote(log, u) = t})
HistoricalCount(log, t) == Cardinality({i \in 1..Len(log) : log[i][1] = t})

MajorityOfFinalVotes(log) ==
    IF FinalCount(log, "extend") > FinalCount(log, "yank") THEN "extend"
    ELSE IF FinalCount(log, "yank") > FinalCount(log, "extend") THEN "yank"
    ELSE "None"

\* number of entries of voter u over all the vote lists
Entries(v, u) ==
    Cardinality({<<t, i>> \in VoteTypes \X (1..NumVoters + MaxLog + 1) :
                    i <= Len(v.votes[t]) /\ v.votes[t][i] = u})

TotalEntries(v) == Len(v.votes["extend"]) + Len(v.votes["yank"])

\* the update call that just returned ended the voting window
JustResolved ==
    /\ vs_op[1] = "update"
    /\ ~voting_system.voting_active
    /\ voting_system.cooldown_timer = cooldown_duration

(***************************************************************************)
(* C1  Voting determinism: the update call on which voting_timer reaches   *)
(* <= 0 returns "extend" if strictly more voters hold an extend vote than  *)
(* a yank vote as their final vote, "yank" in the opposite case and None   *)
(* when the counts are equal; earlier votes of a voter are not counted.    *)
(***************************************************************************)
C1_VotingDeterminism ==
    (vs_op[1] = "update" /\ vs_before.vs.voting_active
        /\ voting_system.voting_timer <= 0)
    => vs_ret = MajorityOfFinalVotes(vote_log)

\* a window resolved to "extend" although the votes ever cast were tied
C1_Witness ==
    /\ JustResolved
    /\ vs_ret = "extend"
    /\ HistoricalCount(vote_log, "extend") = HistoricalCount(vote_log, "yank")

(***************************************************************************)
(* C2  One vote per voter: every voter id appears at most once over all    *)
(* the vote lists, in the list of the option it voted for last, and the    *)
(* number of entries equals the number of distinct voters of the window.   *)
(***************************************************************************)
C2_OneVotePerVoter ==
    /\ \A u \in Voters : Entries(voting_system, u) <= 1
    /\ \A u \in Voters : \A t \in VoteTypes :
          list_contains(voting_system.votes[t], u) <=> FinalVote(vote_log, u) = t
    /\ TotalEntries(voting_system)
          = Cardinality({u \in Voters : VotesOf(vote_log, u) # {}})

\* a voter moved from "extend" to "yank": two accepted votes, one entry
C2_Witness ==
    /\ \E u \in Voters : \E i, j \in 1..Len(vote_log) :
          /\ i < j
          /\ vote_log[i] = <<"extend", u>>
          /\ vote_log[j] = <<"yank", u>>
          /\ list_contains(voting_system.votes["yank"], u)
    /\ Len(vote_log) = 2
    /\ TotalEntries(voting_system) = 1

(***************************************************************************)
(* C3  Invalid votes are rejected as a value: add_vote returns False and   *)
(* changes nothing when the system is in cooldown or the option is not     *)
(* "extend"/"yank"; it returns True exactly when the vote was recorded;    *)
(* it never raises.                                                        *)
(***************************************************************************)
C3_InvalidVoteRejected ==
    vs_op[1] = "add_vote" =>
        LET vote_type == vs_op[2]
            voter_id == vs_op[3]
            invalid == ~vs_before.vs.voting_active \/ vote_type \notin VoteTypes
        IN /\ vs_ret # "ValueError"
           /\ invalid => (vs_ret = "False" /\ voting_system = vs_before.vs)
           /\ ~invalid =>
                 /\ vs_ret = "True"
                 /\ Len(voting_system.votes[vote_type]) > 0
                 /\ voting_system.votes[vote_type]
                       [Len(voting_system.votes[vote_type])] = voter_id

\* a vote for a valid option was refused during cooldown while votes are held
C3_Witness ==
    /\ vs_op[1] = "add_vote"
    /\ vs_op[2] \in VoteTypes
    /\ vs_ret = "False"
    /\ ~voting_system.voting_active
    /\ TotalEntries(voting_system) > 0

(***************************************************************************)
(* C4  Voting cycle: the update that brings the time accumulated in the    *)
(* voting phase to 10 s returns the winner and switches to cooldown;       *)
(* every update during cooldown returns None; the update that brings the   *)
(* cooldown time to 5 s clears the votes and last_winner and returns to    *)
(* voting with a full voting timer; no other phase change happens.         *)
(***************************************************************************)
C4_VotingCycle ==
    vs_op[1] = "update" =>
        LET dt == vs_op[2]
            v == vs_before.vs
            w == voting_system
            elapsed == vs_before.elapsed
        IN IF v.voting_active
           THEN IF elapsed + dt >= voting_duration
                THEN /\ ~w.voting_active
                     /\ w.cooldown_timer = cooldown_duration
                     /\ vs_ret = MajorityOfFinalVotes(vote_log)
                     /\ w.last_winner = vs_ret
                     /\ w.votes = v.votes
                ELSE /\ w.voting_active
                     /\ vs_ret = "None"
                     /\ w.votes = v.votes
           ELSE /\ vs_ret = "None"
                /\ IF elapsed + dt >= cooldown_duration
                   THEN /\ w.voting_active
                        /\ w.votes = [extend |-> <<>>, yank |-> <<>>]
                        /\ w.last_winner = "None"
                        /\ w.voting_timer = voting_duration
                   ELSE /\ ~w.voting_active
                        /\ w.votes = v.votes
                        /\ w.last_winner = v.last_winner

\* a cooldown that followed a won vote has just ended: a new window opens
C4_Witness ==
    /\ vs_op[1] = "update"
    /\ ~vs_before.vs.voting_active
    /\ vs_before.vs.last_winner = "yank"
    /\ voting_system.voting_active
    /\ voting_system.voting_timer = voting_duration
    /\ voting_system.votes = [extend |-> <<>>, yank |-> <<>>]
    /\ voting_system.last_winner = "None"

(***************************************************************************)
(* C5  Leash clamp idempotence: a yank leaves leash_max_x at or above      *)
(* leash_min_x + 2 * width, an extend leaves leash_max_x at or below the   *)
(* extension bound (base max + extend amount, or the cross-arena maximum   *)
(* supplied), and the same call made once more gives the same bounds.      *)
(***************************************************************************)
LeashBounds(pl) == <<pl.leash_min_x, pl.leash_max_x>>

C5_LeashClampIdempotent ==
    \A p \in PlayerNums :
      LET pl == players[p]
          cross == player_op[3]
      IN /\ (player_op[1] = "yank_leash" /\ player_op[2] = p) =>
              /\ pl.leash_max_x >= pl.leash_min_x + 2 * GAMEPLAY_SIZE
              /\ LeashBounds(Player_yank_leash(pl)) = LeashBounds(pl)
         /\ (player_op[1] = "extend_leash" /\ player_op[2] = p) =>
              /\ pl.leash_max_x <= (IF cross = <<>>
                                    THEN pl.leash_base_max_x + pl.leash_extend_amount
                                    ELSE cross[1])
              /\ LeashBounds(Player_extend_leash(pl, cross)) = LeashBounds(pl)

\* a yank held up by the minimum range: less than the yank amount was taken
C5_Witness ==
    /\ player_op[1] = "yank_leash"
    /\ player_op[2] = 1
    /\ players[1].leash_max_x = players[1].leash_min_x + 2 * GAMEPLAY_SIZE
    /\ players[1].leash_max_x
          > players[1].leash_base_max_x - players[1].leash_yank_amount

(***************************************************************************)
(* C6  Score floor (split-screen): each Side's score is >= 0 in every      *)
(* reachable state, whatever the sign of the points and whether the        *)
(* collection was stolen or boosted; a subtraction that would go below 0   *)
(* leaves the score at exactly 0.                                          *)
(***************************************************************************)
C6_ScoreFloor ==
    \A p \in PlayerNums :
      /\ players[p].score >= 0
      /\ (player_op[1] = "collect_snack" /\ player_op[2] = p) =>
            players[p].score = Max(0, player_op[3][2] + player_op[3][1])

\* 150 points, then a collection worth -200: the score is 0
C6_Witness ==
    /\ player_op[1] = "collect_snack"
    /\ player_op[3] = <<-200, 150>>
    /\ players[player_op[2]].score = 0

(***************************************************************************)
(* C7  Score floor (Treat Attack): the Treat Attack score is >= 0 in every *)
(* reachable state, also after "bad" treats worth -200 are collected.      *)
(***************************************************************************)
C7_TreatAttackScoreFloor == treat_attack.score >= 0

(***************************************************************************)
(* C8  Round-win monotonicity: within one match p1_round_wins and          *)
(* p2_round_wins never decrease; they change only in _end_round, where     *)
(* their sum grows by at most 1.                                           *)
(***************************************************************************)
C8_RoundWinMonotonicity ==
    /\ game.p1_round_wins >= game_prev.p1_round_wins
    /\ game.p2_round_wins >= game_prev.p2_round_wins
    /\ ~game_prev.ended_round =>
         /\ game.p1_round_wins = game_prev.p1_round_wins
         /\ game.p2_round_wins = game_prev.p2_round_wins
    /\ game.p1_round_wins + game.p2_round_wins
         <= game_prev.p1_round_wins + game_prev.p2_round_wins + 1

\* a round end that credits player 2 after player 1 has won a round
C8_Witness ==
    /\ game_prev.ended_round
    /\ game_prev.p1_round_wins = 1
    /\ game_prev.p2_round_wins = 0
    /\ game.p1_round_wins = 1
    /\ game.p2_round_wins = 1

(***************************************************************************)
(* C9  Early match termination: with max_rounds = 3, the round end at      *)
(* which a side's round wins reach 2 goes to GAME_OVER in that same        *)
(* _end_round call, without another countdown and without incrementing     *)
(* current_round, also when current_round < 3.                             *)
(***************************************************************************)
C9_EarlyMatchTermination ==
    (/\ game_prev.ended_round
     /\ (game.p1_round_wins >= 2 \/ game.p2_round_wins >= 2))
    => /\ game.screen = "GAME_OVER"
       /\ game.current_round = game_prev.current_round
       /\ game.countdown = 0

\* player 1 wins the first two rounds: the match is over in round 2
C9_Witness ==
    /\ game_prev.ended_round
    /\ game_prev.current_round = 2
    /\ game_prev.p1_round_wins = 1
    /\ game.p1_round_wins = 2
    /\ game.screen = "GAME_OVER"

(***************************************************************************)
(* C10  Round resolution: at round-timer expiry the side with the strictly *)
(* higher score gets exactly +1 round win and the other side's counter is  *)
(* unchanged; with equal scores neither counter changes.                   *)
(***************************************************************************)
C10_RoundResolution ==
    game_prev.ended_round =>
      LET p1_score == game_prev.scores[1]
          p2_score == game_prev.scores[2]
          d1 == game.p1_round_wins - game_prev.p1_round_wins
          d2 == game.p2_round_wins - game_prev.p2_round_wins
      IN IF p1_score > p2_score THEN d1 = 1 /\ d2 = 0
         ELSE IF p2_score > p1_score THEN d1 = 0 /\ d2 = 1
         ELSE d1 = 0 /\ d2 = 0

\* a round that ends with player 2 ahead, 100 to 0
C10_Witness ==
    /\ game_prev.ended_round
    /\ game_prev.scores = <<0, 100>>
    /\ game.p2_round_wins = game_prev.p2_round_wins + 1
    /\ game.p1_round_wins = game_prev.p1_round_wins

(***************************************************************************)
(* C11  Match result: the data handed to the GAME_OVER screen names as     *)
(* winner the side with strictly more round wins, no winner when the round *)
(* wins are equal, and its p1_rounds/p2_rounds are the round-win counters  *)
(* at the moment the match ended.                                          *)
(***************************************************************************)
C11_MatchResult ==
    game.screen = "GAME_OVER" =>
      /\ game.game_over_data # <<>>
      /\ LET data == game.game_over_data[1]
         IN /\ data.p1_rounds = game.p1_round_wins
            /\ data.p2_rounds = game.p2_round_wins
            /\ (data.winner = "p1") = (game.p1_round_wins > game.p2_round_wins)
            /\ (data.winner = "p2") = (game.p2_round_wins > game.p1_round_wins)
            /\ (data.winner = "None") = (game.p1_round_wins = game.p2_round_wins)

\* a match that ends drawn at one round each after the third round
C11_Witness ==
    /\ game.screen = "GAME_OVER"
    /\ game.p1_round_wins = 1
    /\ game.p2_round_wins = 1
    /\ game.game_over_data[1].winner = "None"

\* C12: in the active phase of a round the x of every player, human or AI,
\* lies within its current leash bounds after every call of update,
\* including the call in which a yank shrinks the bounds
C12_LeashPositionInvariant ==
    (game.screen = "GAMEPLAY" /\ game.round_active) =>
        \A p \in PlayerNums :
            /\ game.players[p].leash_min_x <= game.players[p].x
            /\ game.players[p].x <= game.players[p].leash_max_x

\* the player the snack i of arena a goes to when several hitboxes reach
\* it: the owner of the arena, whose loop runs first
FirstProcessed(overlaps, a, i) ==
    IF <<a, a, i>> \in overlaps THEN a ELSE Other(a)

\* C13: an update call awards every snack it collects to exactly one
\* player and once: the snacks collected are those a hitbox reached, and a
\* snack both hitboxes reached counts for the player processed first only
C13_NoDoubleAward ==
    /\ game_tick.collected =
          {<<o[2], o[3]>> : o \in game_tick.overlaps}
    /\ \A p \in PlayerNums :
          game_tick.gains[p] =
             100 * Cardinality({c \in game_tick.collected :
                                   c[1] = p /\ FirstProcessed(game_tick.overlaps, c[1], c[2]) = p})
             + 150 * Cardinality({c \in game_tick.collected :
                                   c[1] # p /\ FirstProcessed(game_tick.overlaps, c[1], c[2]) = p})

\* both hitboxes reached the same snack of arena 2 and player 2 got it
C13_Witness ==
    /\ \E i \in 1..max_snacks :
          /\ <<1, 2, i>> \in game_tick.overlaps
          /\ <<2, 2, i>> \in game_tick.overlaps
          /\ <<2, i>> \in game_tick.collected
    /\ game_tick.gains = <<0, 100>>

\* C14: the vote is open exactly when the cooldown timer is not running
\* (voting_active iff cooldown_timer <= 0), and update(dt) takes dt off the
\* timer of the current phase only: the voting timer while the vote is
\* open, the cooldown timer during the cooldown, never both
C14_VotingPhaseInvariant ==
    /\ voting_system.voting_active <=> voting_system.cooldown_timer <= 0
    /\ vs_op[1] = "update" =>
         IF vs_before.vs.cooldown_timer > 0
         THEN /\ voting_system.cooldown_timer = vs_before.vs.cooldown_timer - vs_op[2]
              /\ voting_system.voting_timer >= vs_before.vs.voting_timer
         ELSE /\ voting_system.voting_timer = vs_before.vs.voting_timer - vs_op[2]
              /\ voting_system.cooldown_timer >= vs_before.vs.cooldown_timer

\* an update that ended the cooldown exactly at zero and reopened the vote
C14_Witness ==
    /\ vs_op[1] = "update"
    /\ vs_before.vs.cooldown_timer > 0
    /\ ~vs_before.vs.voting_active
    /\ voting_system.cooldown_timer = 0
    /\ voting_system.voting_active

\* C15: while the leash timer started by a winning 'extend' vote runs, each
\* of the two players has leash_max_x above the own leash_base_max_x, is in
\* the leash state "extended", and has a range no smaller than the base range
C15_ExtendWidensBoth ==
    (/\ game.screen = "GAMEPLAY"
     /\ game.round_active
     /\ game.voting_system.last_winner = "extend") =>
        \A p \in PlayerNums :
            game.players[p].leash_effect_timer > 0 =>
                /\ game.players[p].leash_max_x > game.players[p].leash_base_max_x
                /\ Player_get_leash_state(game.players[p]) = "extended"
                /\ game.players[p].leash_max_x - game.players[p].leash_min_x
                      >= game.players[p].leash_base_max_x
                           - game.players[p].leash_base_min_x

\* C16: once the players have been updated for leash_effect_duration since
\* the last vote effect, every player, human or AI, has the leash bounds
\* back at the base values and is in the leash state "normal"
C16_LeashEffectsExpire ==
    leash_elapsed >= leash_effect_duration =>
        \A p \in PlayerNums :
            /\ players[p].leash_min_x = players[p].leash_base_min_x
            /\ players[p].leash_max_x = players[p].leash_base_max_x
            /\ Player_get_leash_state(players[p]) = "normal"

\* C17: a match that is ticked unpaused reaches the GAME_OVER screen, also
\* when every round is a tie, and current_round stays within 1..max_rounds
C17_MatchTermination ==
    /\ [](game.current_round \in 1..max_rounds)
    /\ <>(game.screen = "GAME_OVER")

\* a match of max_rounds tied rounds has ended
C17_Witness ==
    /\ game.screen = "GAME_OVER"
    /\ game.current_round = max_rounds
    /\ game.p1_round_wins = 0
    /\ game.p2_round_wins = 0

\* the phase changes a call can make
PhaseOrder ==
    {<<"COUNTDOWN", "WALK_IN">>, <<"WALK_IN", "ACTIVE">>,
     <<"ACTIVE", "ROUND_END">>, <<"ROUND_END", "COUNTDOWN">>,
     <<"ROUND_END", "MATCH_END">>,
     \* _end_round passes through ROUND_END within one call
     <<"ACTIVE", "COUNTDOWN">>, <<"ACTIVE", "MATCH_END">>}

\* C18: at most one of countdown > 0, walk_in_active and round_active
\* holds; a call changes the phase only along COUNTDOWN -> WALK_IN ->
\* ACTIVE -> ROUND_END -> (COUNTDOWN | MATCH_END); and a new countdown
\* belongs to the next round, so no phase is entered twice in a round
C18_SinglePhaseAndOrder ==
    /\ Cardinality({i \in 1..3 : <<game.countdown > 0, game.walk_in_active,
                                   game.round_active>>[i]}) <= 1
    /\ \/ Phase(game) = game_prev.phase
       \/ <<game_prev.phase, Phase(game)>> \in PhaseOrder
    /\ (game_prev.phase # "COUNTDOWN" /\ Phase(game) = "COUNTDOWN") =>
          game.current_round = game_prev.current_round + 1

\* a round has ended and the countdown of the next one has begun
C18_Witness ==
    /\ game_prev.phase = "ACTIVE"
    /\ Phase(game) = "COUNTDOWN"
    /\ game.current_round = 2

\* C19: when the countdown of a round reaches 0 and no player is the
\* character with the entrance animation ("jazzy"), the round is in the
\* active phase right away, without a walk-in phase
C19_WalkInOptional ==
    (/\ game_prev.phase = "COUNTDOWN"
     /\ Phase(game) # "COUNTDOWN"
     /\ \A p \in PlayerNums : game.players[p].character_id # "jazzy") =>
        Phase(game) = "ACTIVE"

\* the timers of the vote system of the screen
VotingTimers == <<game.voting_system.voting_timer, game.voting_system.cooldown_timer>>

\* the vote has just resolved to vote_type: the cooldown has not run yet
VoteResolved(vote_type) ==
    /\ Phase(game) = "ACTIVE"
    /\ game_prev.phase = "ACTIVE"
    /\ game.voting_system.cooldown_timer = cooldown_duration
    /\ game.voting_system.last_winner = vote_type

\* within an update call of the active phase: the vote effect is in place
\* before the players are updated (the leash timer set by the effect has
\* already run in the call and x is within the new bounds), and the
\* collisions see the players and snacks where the call has moved them
StepsInOrder ==
    /\ \A vote_type \in VoteTypes : VoteResolved(vote_type) =>
          \A p \in PlayerNums :
             /\ game.players[p].leash_effect_timer < leash_effect_duration
             /\ game.players[p].x <= game.players[p].leash_max_x
    /\ game_tick.collected \subseteq {<<o[2], o[3]>> : o \in game_tick.overlaps}

\* C20 as stated: an update call of the active phase runs the vote system
\* first, then effects and movement, then the collisions, and takes dt off
\* the round timer last, so the call in which the round timer runs out
\* still runs the vote system before the round ends
C20_StepOrderTimerLast ==
    /\ StepsInOrder
    /\ game_prev.ended_round => VotingTimers # game_prev.voting_timers

\* C20 as amended: an update call of the active phase takes dt off the
\* round timer first; when the timer runs out the round ends at once, with
\* no vote, movement or collision step in that call (the timers of the
\* vote system and the scores are as before it); otherwise the vote system
\* runs first, then effects and movement, then the collisions
C20_StepOrderTimerFirst ==
    /\ StepsInOrder
    /\ game_prev.ended_round =>
          /\ VotingTimers = game_prev.voting_timers
          /\ \A p \in PlayerNums : game.players[p].score = game_prev.scores[p]

\* a round has ended in a call that left the running vote timer alone
C20_Witness ==
    /\ game_prev.ended_round
    /\ game.voting_system.voting_active
    /\ game.voting_system.voting_timer < voting_duration
    /\ VotingTimers = game_prev.voting_timers

\* the snacks of the arena of the other player that an update call gave to
\* player p: collected in the call and out of reach of the owner
StolenBy(p) ==
    {c \in game_tick.collected :
        c[1] = Other(p) /\ <<Other(p), Other(p), c[2]>> \notin game_tick.overlaps}

\* C21: a player gets a snack of the other arena only in an update call
\* that leaves its leash state "extended", and gets int(point_value * 1.5)
\* for it in place of the point value; a player whose leash state is
\* "normal" or "yanked" collects nothing in the other arena
C21_StealRule ==
    game_tick # NoTick =>
      \A p \in PlayerNums :
         LET own == {c \in game_tick.collected :
                        c[1] = p /\ <<p, p, c[2]>> \in game_tick.overlaps}
             state == Player_get_leash_state(game.players[p])
         IN /\ StolenBy(p) # {} => state = "extended"
            /\ state \in {"normal", "yanked"} => StolenBy(p) = {}
            /\ game_tick.gains[p] =
                  100 * Cardinality(own)
                  + IntDiv(100 * 15, 10) * Cardinality(StolenBy(p))

\* player 1, extended, took a snack of arena 2 that player 2 did not reach
\* and got 150 for it
C21_Witness ==
    /\ StolenBy(1) # {}
    /\ Player_get_leash_state(game.players[1]) = "extended"
    /\ game_tick.gains = <<150, 0>>

\* the player has an active effect of the given type
HasEffect(pl, type) ==
    \E i \in 1..Len(pl.active_effects) : pl.active_effects[i].type = type

\* C22: after every apply_effect (a collection) and every update_effects
\* call, controls_flipped is true exactly when active_effects holds a
\* "chaos" effect and is_invincible exactly when it holds an
\* "invincibility" effect, also when of two effects of one type only the
\* older one expires
C22_DerivedEffectFlags ==
    \A p \in PlayerNums :
       (player_op[1] \in {"collect_snack", "update_effects"} /\ player_op[2] = p) =>
          /\ players[p].controls_flipped = HasEffect(players[p], "chaos")
          /\ players[p].is_invincible = HasEffect(players[p], "invincibility")

\* the numbers of the events in a sequence of events
EventNumbers(events) == [i \in 1..Len(events) |-> events[i].n]

C24_MatchEndTerminal ==
    (game_prev.before # <<>> /\ game_prev.before[1].screen = "GAME_OVER") =>
       LET before == game_prev.before[1]
       IN /\ game.p1_round_wins = before.p1_round_wins
          /\ game.p2_round_wins = before.p2_round_wins
          /\ game.current_round = before.current_round
          /\ \A p \in PlayerNums : game.players[p].score = before.players[p].score
          /\ game.round_timer = before.round_timer
          /\ game.voting_system = before.voting_system
          /\ game.screen = "GAME_OVER"
          /\ game.game_over_data = before.game_over_data

\* update was called on the screen of a match that player 1 had won
C24_Witness ==
    /\ game_prev.before # <<>>
    /\ game_prev.phase = "MATCH_END"
    /\ game.p1_round_wins = 2
    /\ game.round_timer <= 0

\* C25: when a vote closes with equal counts (no votes at all included),
\* the update call that closes it leaves leash_min_x, leash_max_x and
\* leash_effect_timer of both players as they were, and the VotingSystem
\* enters the cooldown all the same
C25_TiedVoteNoEffect ==
    (/\ game_tick.leash_before # <<>>
     /\ Len(game.voting_system.votes.extend) = Len(game.voting_system.votes.yank)) =>
       /\ game.voting_system.last_winner = "None"
       /\ \A p \in PlayerNums :
             LeashFields(game.players[p]) = game_tick.leash_before[p]
       /\ ~game.voting_system.voting_active
       /\ game.voting_system.cooldown_timer = cooldown_duration

\* a vote closed one against one
C25_Witness ==
    /\ game_tick.leash_before # <<>>
    /\ game.voting_system.last_winner = "None"
    /\ Len(game.voting_system.votes.extend) = 1
    /\ Len(game.voting_system.votes.yank) = 1
    /\ game.voting_system.cooldown_timer = cooldown_duration

\* C26: after every CatcherDog.update the x of the dog is within
\* [current_min_x, current_max_x - width] of its leash state, also when a
\* yank comes while the dog stands still beyond the yanked bound (the
\* leash state changes within update calls only, so this is to hold in
\* every state)
C26_CatcherDogWithinLeash ==
    /\ treat_attack.dog.x >= CatcherDog_current_min_x(treat_attack.dog)
    /\ treat_attack.dog.x <= CatcherDog_current_max_x(treat_attack.dog) - dog_width

\* C27: within one Treat Attack voting window one voter adds at most one
\* vote to the tally the winner is taken from, however often the vote
\* command is repeated or changed.  All commands come from the one chat
\* input of the screen, so the tally of a window is to stay at one vote.
C27_OneVotePerVoterTreatAttack ==
    treat_attack.voting_meter.extend_votes + treat_attack.voting_meter.yank_votes <= 1

\* what a pause is to freeze: the countdown, the walk-in and round timers,
\* the timers of the vote system, and the players (positions, scores,
\* effect and leash timers) and arenas (snacks) as they are
Frozen(g) ==
    <<g.countdown, g.countdown_timer, g.walk_in_active, g.walk_in_timer,
      g.round_active, g.round_timer,
      g.voting_system.voting_active, g.voting_system.voting_timer,
      g.voting_system.cooldown_timer,
      g.players, g.arenas>>

\* C28: an update(dt) call on the paused screen, whatever dt, leaves the
\* countdown, the walk-in timer, the round timer, the voting and cooldown
\* timers, the leash and effect timers, the positions, the scores and the
\* snacks as they are (the whole screen, in fact), and the key that ends
\* the pause hands back the state the pause has kept
C28_PauseFreezes ==
    (/\ game_prev.before # <<>>
     /\ game_prev.before[1].paused
     /\ game_prev.before[2][1] \in {"update", "K_RETURN"}) =>
       /\ Frozen(game) = Frozen(game_prev.before[1])
       /\ game.paused => game = game_prev.before[1]

\* update was called on a screen paused in the active phase of a round,
\* with a snack falling and the vote open
C28_Witness ==
    /\ game_prev.before # <<>>
    /\ game_prev.before[2] = <<"update">>
    /\ game.paused
    /\ Phase(game) = "ACTIVE"
    /\ \E p \in PlayerNums : Len(game.arenas[p].snacks) > 0
    /\ game.voting_system.voting_timer < voting_duration

\* the clock of a VotingSystem: whether a vote is open, and the two timers
VotingClock(v) == <<v.voting_active, v.voting_timer, v.cooldown_timer>>

\* C29: voting_timer and cooldown_timer change in no call made during the
\* countdown, the walk-in or the pause (update calls, the call that starts
\* the round included, leave the whole VotingSystem as it is, so it is not
\* reset between rounds; a vote leaves the clock as it is), the update call
\* that ends a round leaves the two timers as they are, and a vote for
\* "extend" or "yank" cast in those phases while voting_active is true is on
\* the list of its option, and on no other, after the call, with the other
\* voters' votes as they were
C29_VotingClockInActivePlayOnly ==
    /\ (game_prev.before # <<>> /\ game_prev.before[1].screen = "GAMEPLAY") =>
          LET before == game_prev.before[1].voting_system
              call == game_prev.before[2]
              after == game.voting_system
          IN /\ VotingClock(after) = VotingClock(before)
             /\ call[1] # "TWITCH_VOTE_EVENT" => after = before
             /\ (/\ call[1] = "TWITCH_VOTE_EVENT"
                 /\ call[2] \in VoteTypes
                 /\ before.voting_active) =>
                   \A vote_type \in VoteTypes, voter_id \in Voters :
                      (\E i \in 1..Len(after.votes[vote_type]) :
                          after.votes[vote_type][i] = voter_id)
                      <=> IF voter_id = call[3]
                          THEN vote_type = call[2]
                          ELSE \E i \in 1..Len(before.votes[vote_type]) :
                                  before.votes[vote_type][i] = voter_id
    /\ game_prev.ended_round =>
          game_prev.voting_timers = <<game.voting_system.voting_timer,
                                      game.voting_system.cooldown_timer>>

\* in the walk-in of the second round, with the clock of the vote part run
\* down in the first round, a voter who had voted "extend" has voted "yank"
C29_Witness ==
    /\ game_prev.before # <<>>
    /\ game_prev.before[2][1] = "TWITCH_VOTE_EVENT"
    /\ game_prev.before[2][2] = "yank"
    /\ Phase(game) = "WALK_IN"
    /\ game.current_round = 2
    /\ game.voting_system.voting_active
    /\ game.voting_system.voting_timer < voting_duration
    /\ \E i \in 1..Len(game_prev.before[1].voting_system.votes["extend"]) :
          game_prev.before[1].voting_system.votes["extend"][i] = game_prev.before[2][3]

====
